---- MODULE Spec2Model ----
(***************************************************************************)
(* Water tank monitor firmware (Arduino Mega 2560, src/src/main.cpp):      *)
(* the HC-SR04 echo-timing state machine driven by the Timer5 input        *)
(* capture interrupt, the trigger sequencer, the 3-sample distance filter  *)
(* and the 1 ms main loop, together with the capture hardware and the      *)
(* sensor's echo line.                                                     *)
(*                                                                         *)
(* The main context is modelled statement by statement (pc), the ISR as    *)
(* one atomic step (AVR interrupts do not nest), and a 32-bit load of the  *)
(* main context as a load of the low byte followed by a load of the high   *)
(* bytes (the ATmega is an 8-bit core and the code disables no interrupt   *)
(* around its reads).                                                      *)
(***************************************************************************)
EXTENDS Integers, Sequences, FiniteSets, TLC

\* ------------------------------------------------------------------ bounds

\* Time steps the echo line may stay high: the true pulse lengths are
\* 0, EchoStep, ..., MaxAdvance * EchoStep ticks.
MaxAdvance == 2

\* One time step in timer ticks of 0.5 us: 17.4 ms, the echo of an object at 300 cm.
\* Two steps are 34.8 ms, more than one period of the 16-bit counter (32.768 ms)
\* and less than the sensor's 38 ms no-echo timeout.
EchoStep == 34800

\* Trigger pulses the sensor answers with an echo pulse.
MaxPulses == 2

\* Half-width of the windows of tick values sampled around each corner case
\* of the capture arithmetic.
SampleSpan == 1

\* Number of sample values the filter inputs are drawn from beyond the fixed ones.
FilterExtra == 1

\* Loop iterations that are counted one by one; the count stays at this value
\* for every later iteration.
MaxIterations == 122

\* Tank-height variant: inbound lines the serial peer sends.
MaxLines == 2

\* Tank-height variant: loop iterations followed from the starting instant.
MaxTankIterations == 3

\* Tank-height variant: loop iterations followed from the starting instant
\* when the serial peer stays silent.
MaxSilentIterations == 1001

\* Tank-height variant: characters that can arrive at 9600 baud (one per
\* 1.04 ms) during a loop iteration that lasts longer than that, because it
\* converts the ADC or sends a packet.
SlowIterationChars == 2

\* Loop iterations of the Timer1 variant that are followed.
MaxTimer1Iterations == 31

\* Loop iterations of the JSON telemetry variant that are followed.
MaxJsonIterations == 501

\* ------------------------------------------------------- program constants

DISTANCE_SAMPLES == 3
WATER_CONTAMINATION_THRESHOLD == 100
MeasurementPeriod == 60
TimerModulus == 65536
MinPulseUs == 150
MaxPulseUs == 23500
UsPerCm == 58

\* unnamed/part_002
WATER_CONTAMINATION_ADC == 100
OVERFLOW_PERCENT == 50
EMPTY_PERCENT == 5
BT_SEND_INTERVAL_MS == 500
SENSOR_READ_INTERVAL_MS == 60
STATUS_EMPTY == 0
STATUS_HALF_FULL == 1
STATUS_OVERFLOW == 2
STATUS_CONTAMINATED == 3
RxBufferSize == 8
HeightLimit == 500
IntMax == 32767

\* unnamed/part_000
Timer1Period == 10
Timer1TicksPerMs == 2000

\* unnamed/part_001
BT_SEND_INTERVAL == 500
STATUS_OVERFLOW_WARNING == 2

\* ---------------------------------------------------------------- variables

VARIABLES
    \* firmware globals
    measurement_ready, distance_cm, pulse_start, edge_count,
    distance_buffer, distance_index,
    \* main(): locals and position
    pc, measurement_cycle, water_level, distance,
    \* get_filtered_distance(): locals; lo is the low byte already loaded
    i, sum, valid_count, lo,
    \* ISR local kept after the handler returns (last value computed)
    pulse_ticks,
    \* Timer5 and port registers
    TCNT5, ICR5, ICES5, ICF5, PH4, PE4, PE5, PG5, PE3,
    \* HC-SR04 echo line: level, trigger pulse not yet answered, time steps the
    \* current pulse has been high, pulses sent
    echo, armed, adv, answered,
    \* history: where ICR5 and pulse_start come from
    \*   "none" | "rise" | "fall" | "old" (captured before the last counter reset)
    icr_kind, start_kind,
    \* history: filter results of the shared state at each instant of the
    \* running get_filtered_distance call
    snaps,
    \* history: the pair the handler has open
    \*   "no"     no pair open, or its falling edge has arrived
    \*   "set"    the handler set edge_count to 1 and no falling edge has arrived
    \*   "called" the same, and trigger_hcsr04 has been called since
    \* and the loop iterations completed while it was "set"
    stuck, waited,
    \* history: number of the loop iteration that is running (1 is the first)
    iteration,
    \* history: no capture handler has run since the running
    \* get_filtered_distance call began
    calm,
    \* history: the distances of the valid measurements completed, in order;
    \* for each ring slot the number (in that order) of the measurement that
    \* wrote it, 0 for none, and the calls of trigger_hcsr04 since it was written
    valid_log, slot_seq, slot_age,
    \* Timer1 variant (unnamed/part_000): capture register, edge select, flag,
    \* counter
    ICR1, ICES1, ICF1, TCNT1,
    \* tank-height variant (unnamed/part_002): globals
    container_height_cm, rx_buffer, rx_index, new_command, system_time_ms,
    \* tank-height variant: main() position and locals
    tpc, sensor_cycle, bt_timer, water_adc, level_percent, status, alert,
    \* tank-height variant: lines the firmware has sent on USART1
    uart_tx,
    \* serial peer: characters of the inbound line still on the wire, the
    \* integer that line denotes, lines sent, characters that can still arrive
    \* before the main loop tests new_command again, loop iterations completed
    rx_wire, wire_value, lines_sent, rx_credit, tank_iters,
    \* history: the integer denoted by the line that last raised new_command,
    \* the number of assignments to container_height_cm, and the values of the
    \* digit strings of the complete lines received so far
    cmd_value, height_writes, lines_seen,
    \* companion app (sensor_data_screen.dart): the fields a status packet
    \* updates, the confirmed tank height (<< >> is null), and the number of
    \* lines of uart_tx it has handled
    app_timestamp, app_percentage, app_waterQuality, app_status, app_alert,
    app_tankHeight, app_read,
    \* JSON telemetry variant (unnamed/part_001): globals and the send counter
    \* of main()
    current_status, alert_active, bt_send_counter

fw == <<measurement_ready, distance_cm, pulse_start, edge_count,
        distance_buffer, distance_index>>
mainv == <<pc, measurement_cycle, water_level, distance>>
filt == <<i, sum, valid_count, lo>>
timer == <<TCNT5, ICR5, ICES5, ICF5>>
pins == <<PH4, PE4, PE5, PG5, PE3>>
envv == <<echo, armed, adv, answered>>
hist == <<icr_kind, start_kind, snaps>>
progress == <<stuck, waited, iteration, calm>>
ringhist == <<valid_log, slot_seq, slot_age>>
timer1 == <<ICR1, ICES1, ICF1, TCNT1>>
tankfw == <<container_height_cm, rx_buffer, rx_index, new_command, system_time_ms>>
tankmain == <<tpc, sensor_cycle, bt_timer, water_adc, level_percent, status, alert>>
peer == <<rx_wire, wire_value, lines_sent, rx_credit, tank_iters>>
tankhist == <<cmd_value, height_writes, lines_seen>>
client == <<app_timestamp, app_percentage, app_waterQuality, app_status, app_alert,
            app_tankHeight, app_read>>
tankv == <<tankfw, tankmain, uart_tx, peer, tankhist, client>>
jsonv == <<current_status, alert_active, bt_send_counter>>
variants == <<timer1, tankv, jsonv>>
vars == <<fw, mainv, filt, pulse_ticks, timer, pins, envv, hist, progress, ringhist,
          variants>>

\* ------------------------------------------------------------------ inputs

\* ADC readings of the water sensor, both sides of the threshold.
AdcSamples == {100, 101}

Window(c) == {v \in (c - SampleSpan)..(c + SampleSpan) : v >= 0 /\ v < TimerModulus}

\* 16-bit counter values at the rising edge.
StartSamples == Window(0) \cup Window(65000) \cup Window(65535)

\* Pulse lengths in ticks modulo 2^16: around 0, 150 us, 23500 us and 2^16 - 1.
WidthSamples ==
    Window(0) \cup Window(299) \cup Window(300) \cup Window(1536)
    \cup Window(47001) \cup Window(47002) \cup Window(65535)

\* Ring contents for the filter on its own.
FilterSamples == {0, 12, 14, 300} \cup {300 + k : k \in 1..(FilterExtra - 1)}

\* ------------------------------------------------------- pure computations

Lo8(v) == v % 256
Hi24(v) == v \div 256
Join(l, h) == h * 256 + l

\* Variant of PulseTicks without the + 1 of the wrapped case.
PulseTicksNoCarry(start, end) ==
    IF end >= start THEN (end - start) % TimerModulus
    ELSE ((65535 - start) + end) % TimerModulus

\* uint16_t pulse_ticks from the two captured counts (unsigned 16-bit arithmetic).
PulseTicks(start, end) ==
    IF end >= start THEN (end - start) % TimerModulus
    ELSE ((65535 - start) + end + 1) % TimerModulus

\* (uint32_t)pulse_ticks >> 1
PulseUs(ticks) == ticks \div 2

\* Variant of ValidPulse without the upper end of the window.
ValidPulseNoUpper(us) == us >= MinPulseUs

\* Variant of ValidPulse with both ends of the window excluded.
ValidPulseStrict(us) == us > MinPulseUs /\ us < MaxPulseUs

\* if(pulse_us >= 150 && pulse_us <= 23500)
ValidPulse(us) == us >= MinPulseUs /\ us <= MaxPulseUs

\* uint32_t new_distance = pulse_us / 58;
NewDistance(us) == us \div UsPerCm

\* What a call of get_filtered_distance returns when nothing interrupts it.
Positive(buf) == {k \in 0..(DISTANCE_SAMPLES - 1) : buf[k] > 0}

RECURSIVE SumOver(_, _)
SumOver(buf, S) ==
    IF S = {} THEN 0
    ELSE LET k == CHOOSE x \in S : TRUE IN buf[k] + SumOver(buf, S \ {k})

FilterOf(buf, raw) ==
    IF Positive(buf) = {} THEN raw
    ELSE SumOver(buf, Positive(buf)) \div Cardinality(Positive(buf))

\* Variant of ZeroBuffer: a ring that starts with a sample in every slot.
SeededBuffer == [k \in 0..(DISTANCE_SAMPLES - 1) |-> 1]

\* static volatile uint32_t distance_buffer[DISTANCE_SAMPLES] = {0};
ZeroBuffer == [k \in 0..(DISTANCE_SAMPLES - 1) |-> 0]

\* Variant of NextIndex that runs past the end of the ring.
NextIndexNoWrap(idx) == idx + 1

\* distance_index = (distance_index + 1) % DISTANCE_SAMPLES;
NextIndex(idx) == (idx + 1) % DISTANCE_SAMPLES

\* History: a call of trigger_hcsr04 makes every stored sample one trigger
\* older; the count stops one past the ring size.
Older(age, buf) ==
    [k \in 0..(DISTANCE_SAMPLES - 1) |->
        IF buf[k] > 0 /\ age[k] <= DISTANCE_SAMPLES THEN age[k] + 1 ELSE age[k]]

\* History: the last of the first k valid measurements that wrote slot s, 0
\* when none did.
LastWriter(s, k) ==
    LET writers == {j \in 1..k : (j - 1) % DISTANCE_SAMPLES = s}
    IN IF writers = {} THEN 0 ELSE CHOOSE j \in writers : \A m \in writers : m <= j

\* History of a ring that k valid measurements of d cm have written, one per
\* trigger.
RingHistory(k, d) ==
    /\ valid_log = [j \in 1..k |-> d]
    /\ slot_seq = [s \in 0..(DISTANCE_SAMPLES - 1) |-> LastWriter(s, k)]
    /\ slot_age = [s \in 0..(DISTANCE_SAMPLES - 1) |->
                      IF LastWriter(s, k) = 0 THEN 0 ELSE k - LastWriter(s, k)]

\* ------------------------------------------------------------------- Init

InitCommon ==
    /\ measurement_ready = 0
    /\ measurement_cycle = 0
    /\ water_level = 0
    /\ distance = 0
    /\ i = 0 /\ sum = 0 /\ valid_count = 0 /\ lo = 0
    /\ pulse_ticks = 0
    /\ TCNT5 = 0
    /\ PH4 = 0 /\ PE4 = 1 /\ PE5 = 1 /\ PG5 = 1 /\ PE3 = 0
    /\ echo = 0 /\ armed = 0 /\ adv = 0 /\ answered = 0
    /\ icr_kind = "none" /\ start_kind = "none"
    /\ stuck = "no" /\ waited = 0 /\ iteration = 1 /\ calm = TRUE

\* The Timer1 variant at rest.
Timer1Idle == ICR1 = 0 /\ ICES1 = 1 /\ ICF1 = 0 /\ TCNT1 = 0

\* The receive buffer as the C start-up code leaves it (zero-filled).
EmptyRxBuffer == [k \in 0..7 |-> "NUL"]

\* The JSON telemetry variant before its main loop.
JsonIdle == current_status = 0 /\ alert_active = 0 /\ bt_send_counter = 0

\* The companion app before any line has arrived.
ClientIdle ==
    /\ app_timestamp = 0 /\ app_percentage = 0 /\ app_waterQuality = 0
    /\ app_status = "EMPTY" /\ app_alert = FALSE
    /\ app_tankHeight = << >> /\ app_read = 0

\* The tank-height variant at rest: globals at their initialisers, nothing on
\* the serial line.
TankIdle ==
    /\ container_height_cm = 10
    /\ rx_buffer = EmptyRxBuffer /\ rx_index = 0 /\ new_command = 0
    /\ system_time_ms = 0
    /\ tpc = "cmd" /\ sensor_cycle = 0 /\ bt_timer = 0 /\ water_adc = 0
    /\ level_percent = 0 /\ status = 0 /\ alert = 0
    /\ uart_tx = << >>
    /\ rx_wire = << >> /\ wire_value = 0 /\ lines_sent = 0
    /\ rx_credit = 0 /\ tank_iters = 0
    /\ cmd_value = 0 /\ height_writes = 0 /\ lines_seen = {}
    /\ ClientIdle
    /\ JsonIdle

\* main() at the top of while(1): ports set, init_timer5_input_capture() and
\* sei() done.
Init ==
    /\ InitCommon
    /\ Timer1Idle /\ TankIdle
    /\ distance_cm = 0 /\ pulse_start = 0 /\ edge_count = 0
    /\ distance_buffer = ZeroBuffer
    /\ distance_index = 0
    /\ RingHistory(0, 0)
    /\ pc = "top"
    /\ ICR5 = 0 /\ ICES5 = 1 /\ ICF5 = 0
    /\ snaps = {}

\* ------------------------------------------------- capture hardware, sensor

\* An edge of the selected polarity latches the counter and raises ICF5.
Latch(kind) ==
    /\ ICR5' = TCNT5
    /\ ICF5' = 1
    /\ icr_kind' = kind

NoLatch == UNCHANGED <<ICR5, ICF5, icr_kind>>

\* The sensor answers a trigger pulse with one echo pulse.
EchoRise ==
    /\ armed = 1 /\ echo = 0
    /\ echo' = 1 /\ armed' = 0 /\ adv' = 0 /\ answered' = answered + 1
    /\ IF ICES5 = 1 THEN Latch("rise") ELSE NoLatch
    /\ UNCHANGED <<fw, mainv, filt, pulse_ticks, TCNT5, ICES5, pins, start_kind, snaps>>
    /\ UNCHANGED progress
    /\ UNCHANGED <<variants, ringhist>>

EchoFall ==
    /\ echo = 1
    /\ echo' = 0
    /\ IF ICES5 = 0 THEN Latch("fall") ELSE NoLatch
    /\ UNCHANGED <<fw, mainv, filt, pulse_ticks, TCNT5, ICES5, pins, armed, adv,
                   answered, start_kind, snaps>>
    /\ stuck' = "no" /\ waited' = 0
    /\ UNCHANGED <<iteration, calm>>
    /\ UNCHANGED <<variants, ringhist>>

\* Time passes while the echo line is high: the counter runs on, modulo 2^16.
\* A time step is many milliseconds, so it is spent in the loop's _delay_ms(1);
\* the statements of the loop body take microseconds.
Advance ==
    /\ echo = 1
    /\ pc = "delay"
    /\ adv < MaxAdvance
    /\ TCNT5' = (TCNT5 + EchoStep) % TimerModulus
    /\ adv' = adv + 1
    /\ UNCHANGED <<fw, mainv, filt, pulse_ticks, ICR5, ICES5, ICF5, pins, echo, armed,
                   answered, hist>>
    /\ UNCHANGED progress
    /\ UNCHANGED <<variants, ringhist>>

\* True length in ticks of the echo pulse last sent.
TrueTicks == adv * EchoStep

\* ----------------------------------------------------- ISR(TIMER5_CAPT_vect)

InFilter == pc \in {"f_lo", "f_hi", "f_ret", "d_hi"}

\* Variant of IsrRising that also withdraws the published distance.
IsrRisingClearsDistance ==
    /\ edge_count = 0
    /\ pulse_start' = ICR5
    /\ edge_count' = 1
    /\ ICES5' = 0
    /\ start_kind' = icr_kind
    /\ distance_cm' = 0
    /\ UNCHANGED <<measurement_ready, distance_buffer, distance_index,
                   pulse_ticks, snaps>>
    /\ stuck' = "set" /\ waited' = 0
    /\ UNCHANGED ringhist

\* Stage 1: edge_count == 0.
IsrRising ==
    /\ edge_count = 0
    /\ pulse_start' = ICR5
    /\ edge_count' = 1
    /\ ICES5' = 0
    /\ start_kind' = icr_kind
    /\ UNCHANGED <<measurement_ready, distance_cm, distance_buffer, distance_index,
                   pulse_ticks, snaps>>
    /\ stuck' = "set" /\ waited' = 0
    /\ UNCHANGED ringhist

\* Variant of StoreSample that leaves the ring as it is.
StoreSampleNowhere(buf, idx, d) == buf

\* Variant of StoreSample that never overwrites a stored sample.
StoreSampleIfFree(buf, idx, d) == IF buf[idx] = 0 THEN [buf EXCEPT ![idx] = d] ELSE buf

\* Variant of StoreSample that writes the slot after the cursor.
StoreSampleAtNext(buf, idx, d) == [buf EXCEPT ![NextIndex(idx)] = d]

\* distance_buffer[distance_index] = new_distance;
StoreSample(buf, idx, d) == [buf EXCEPT ![idx] = d]

\* Variant of DiscardSample that records the invalid reading in the ring.
DiscardSampleIntoRing ==
    /\ distance_cm' = 0
    /\ distance_buffer' = [distance_buffer EXCEPT ![distance_index] = 0]
    /\ distance_index' = NextIndex(distance_index)

\* else { distance_cm = 0; }
DiscardSample ==
    /\ distance_cm' = 0
    /\ UNCHANGED <<distance_buffer, distance_index>>

\* Stage 2: edge_count == 1.
IsrFalling ==
    /\ edge_count = 1
    /\ LET pulse_end == ICR5
           ticks == PulseTicks(pulse_start, pulse_end)
           pulse_us == PulseUs(ticks)
       IN /\ pulse_ticks' = ticks
          /\ IF ValidPulse(pulse_us)
             THEN /\ distance_buffer' =
                        StoreSample(distance_buffer, distance_index, NewDistance(pulse_us))
                  /\ distance_index' = NextIndex(distance_index)
                  /\ distance_cm' = NewDistance(pulse_us)
                  /\ valid_log' = Append(valid_log, NewDistance(pulse_us))
                  /\ slot_seq' = [slot_seq EXCEPT ![distance_index] = Len(valid_log) + 1]
                  /\ slot_age' = [slot_age EXCEPT ![distance_index] = 0]
             ELSE /\ DiscardSample
                  /\ UNCHANGED ringhist
    /\ measurement_ready' = 1
    /\ edge_count' = 0
    /\ ICES5' = 1
    /\ snaps' = IF InFilter
                THEN snaps \cup {FilterOf(distance_buffer', distance_cm')}
                ELSE snaps
    /\ UNCHANGED <<pulse_start, start_kind>>
    /\ stuck' = "no" /\ waited' = 0

\* The handler runs when the capture flag is set (interrupts are enabled in
\* all of the main loop); executing it clears the flag.
TIMER5_CAPT ==
    /\ ICF5 = 1
    /\ ICF5' = 0
    /\ \/ IsrRising
       \/ IsrFalling
    /\ UNCHANGED <<mainv, filt, TCNT5, ICR5, pins, envv, icr_kind>>
    /\ calm' = IF InFilter THEN FALSE ELSE calm
    /\ UNCHANGED iteration
    /\ UNCHANGED variants

\* ------------------------------------------------------------------ main()

\* Interrupts are enabled in all of the main loop (sei() before it, no cli()
\* anywhere): a pending capture is served before the next main statement.
NoInterruptPending == ICF5 = 0

\* Entering get_filtered_distance: sum = 0, valid_count = 0, i = 0.
EnterFilter ==
    /\ i' = 0 /\ sum' = 0 /\ valid_count' = 0 /\ lo' = 0
    /\ snaps' = {FilterOf(distance_buffer, distance_cm)}
    /\ calm' = TRUE

\* Variant of LoopTop that waits for a new sample before it reads the filter.
LoopTopWaitReady ==
    /\ pc = "top"
    /\ NoInterruptPending
    /\ IF measurement_cycle = 0
       THEN /\ pc' = "adc"
            /\ UNCHANGED <<filt, snaps, calm>>
       ELSE /\ measurement_ready = 1
            /\ pc' = "f_lo"
            /\ EnterFilter
    /\ UNCHANGED <<fw, measurement_cycle, water_level, distance, pulse_ticks, timer,
                   pins, envv, icr_kind, start_kind>>
    /\ UNCHANGED <<stuck, waited, iteration>>
    /\ UNCHANGED <<variants, ringhist>>

\* if(measurement_cycle == 0){ ... } : the test at the top of the loop body.
LoopTop ==
    /\ pc = "top"
    /\ NoInterruptPending
    /\ IF measurement_cycle = 0
       THEN /\ pc' = "adc"
            /\ UNCHANGED <<filt, snaps, calm>>
       ELSE /\ pc' = "f_lo"
            /\ EnterFilter
    /\ UNCHANGED <<fw, measurement_cycle, water_level, distance, pulse_ticks, timer,
                   pins, envv, icr_kind, start_kind>>
    /\ UNCHANGED <<stuck, waited, iteration>>
    /\ UNCHANGED <<variants, ringhist>>

\* water_level = read_water_sensor();
ReadWaterSensor ==
    /\ pc = "adc"
    /\ NoInterruptPending
    /\ water_level' \in AdcSamples
    /\ pc' = "t1"
    /\ UNCHANGED <<fw, measurement_cycle, distance, filt, pulse_ticks, timer, pins,
                   envv, hist>>
    /\ UNCHANGED progress
    /\ UNCHANGED <<variants, ringhist>>

\* Variant of TrigResetEdge that leaves edge_count as it is.
TrigKeepEdge ==
    /\ pc = "t1"
    /\ NoInterruptPending
    /\ pc' = "t2"
    /\ UNCHANGED <<fw, measurement_cycle, water_level, distance, filt,
                   pulse_ticks, timer, pins, envv, hist>>
    /\ stuck' = IF stuck = "set" THEN "called" ELSE stuck
    /\ UNCHANGED <<waited, iteration, calm>>
    /\ UNCHANGED <<variants, ringhist>>

\* Variant of TrigResetEdge that also clears the published distance.
TrigResetEdgeAndDistance ==
    /\ pc = "t1"
    /\ NoInterruptPending
    /\ edge_count' = 0
    /\ distance_cm' = 0
    /\ pc' = "t2"
    /\ UNCHANGED <<measurement_ready, pulse_start, distance_buffer,
                   distance_index, measurement_cycle, water_level, distance, filt,
                   pulse_ticks, timer, pins, envv, hist>>
    /\ stuck' = IF stuck = "set" THEN "called" ELSE stuck
    /\ UNCHANGED <<waited, iteration, calm>>
    /\ UNCHANGED <<variants, ringhist>>

\* trigger_hcsr04(), one statement per step.  edge_count = 0;
TrigResetEdge ==
    /\ pc = "t1"
    /\ NoInterruptPending
    /\ edge_count' = 0
    /\ pc' = "t2"
    /\ UNCHANGED <<measurement_ready, distance_cm, pulse_start, distance_buffer,
                   distance_index, measurement_cycle, water_level, distance, filt,
                   pulse_ticks, timer, pins, envv, hist>>
    /\ stuck' = IF stuck = "set" THEN "called" ELSE stuck
    /\ UNCHANGED <<waited, iteration, calm>>
    /\ UNCHANGED <<variants, ringhist>>

\* TrigResetEdge with the history of sample ages recorded.
TrigResetEdgeAged ==
    /\ pc = "t1"
    /\ NoInterruptPending
    /\ edge_count' = 0
    /\ pc' = "t2"
    /\ UNCHANGED <<measurement_ready, distance_cm, pulse_start, distance_buffer,
                   distance_index, measurement_cycle, water_level, distance, filt,
                   pulse_ticks, timer, pins, envv, hist>>
    /\ stuck' = IF stuck = "set" THEN "called" ELSE stuck
    /\ UNCHANGED <<waited, iteration, calm>>
    /\ slot_age' = Older(slot_age, distance_buffer)
    /\ UNCHANGED <<valid_log, slot_seq, variants>>

\* Variant of TrigResetReady that also rewinds the ring cursor.
TrigResetReadyAndIndex ==
    /\ pc = "t2"
    /\ NoInterruptPending
    /\ measurement_ready' = 0
    /\ distance_index' = 0
    /\ pc' = "t3"
    /\ UNCHANGED <<distance_cm, pulse_start, edge_count, distance_buffer,
                   measurement_cycle, water_level, distance, filt,
                   pulse_ticks, timer, pins, envv, hist>>
    /\ UNCHANGED progress
    /\ UNCHANGED <<variants, ringhist>>

\* Variant of TrigResetReady that also empties the ring.
TrigResetReadyAndRing ==
    /\ pc = "t2"
    /\ NoInterruptPending
    /\ measurement_ready' = 0
    /\ distance_buffer' = ZeroBuffer
    /\ pc' = "t3"
    /\ UNCHANGED <<distance_cm, pulse_start, edge_count, distance_index,
                   measurement_cycle, water_level, distance, filt,
                   pulse_ticks, timer, pins, envv, hist>>
    /\ UNCHANGED progress
    /\ UNCHANGED <<variants, ringhist>>

\* measurement_ready = 0;
TrigResetReady ==
    /\ pc = "t2"
    /\ NoInterruptPending
    /\ measurement_ready' = 0
    /\ pc' = "t3"
    /\ UNCHANGED <<distance_cm, pulse_start, edge_count, distance_buffer,
                   distance_index, measurement_cycle, water_level, distance, filt,
                   pulse_ticks, timer, pins, envv, hist>>
    /\ UNCHANGED progress
    /\ UNCHANGED <<variants, ringhist>>

\* TIFR5 = (1 << ICF5);
TrigClearFlag ==
    /\ pc = "t3"
    /\ NoInterruptPending
    /\ ICF5' = 0
    /\ pc' = "t4"
    /\ UNCHANGED <<fw, measurement_cycle, water_level, distance, filt, pulse_ticks,
                   TCNT5, ICR5, ICES5, pins, envv, hist>>
    /\ UNCHANGED progress
    /\ UNCHANGED <<variants, ringhist>>

\* What was captured before the counter is reset belongs to the old time base.
Aged(kind) == IF kind = "none" THEN "none" ELSE "old"

\* TCNT5 = 0;
TrigResetCounter ==
    /\ pc = "t4"
    /\ NoInterruptPending
    /\ TCNT5' = 0
    /\ icr_kind' = Aged(icr_kind)
    /\ start_kind' = Aged(start_kind)
    /\ pc' = "t5"
    /\ UNCHANGED <<fw, measurement_cycle, water_level, distance, filt, pulse_ticks,
                   ICR5, ICES5, ICF5, pins, envv, snaps>>
    /\ UNCHANGED progress
    /\ UNCHANGED <<variants, ringhist>>

\* TCCR5B |= (1 << ICES5);  the bit written is 1 whatever was read.
TrigSelectRising ==
    /\ pc = "t5"
    /\ NoInterruptPending
    /\ ICES5' = 1
    /\ pc' = "t6"
    /\ UNCHANGED <<fw, measurement_cycle, water_level, distance, filt, pulse_ticks,
                   TCNT5, ICR5, ICF5, pins, envv, hist>>
    /\ UNCHANGED progress
    /\ UNCHANGED <<variants, ringhist>>

\* PORTH |= (1 << PH4); _delay_us(10);
TrigPulseHigh ==
    /\ pc = "t6"
    /\ NoInterruptPending
    /\ PH4' = 1
    /\ pc' = "t7"
    /\ UNCHANGED <<fw, measurement_cycle, water_level, distance, filt, pulse_ticks,
                   timer, PE4, PE5, PG5, PE3, envv, hist>>
    /\ UNCHANGED progress
    /\ UNCHANGED <<variants, ringhist>>

\* PORTH &= ~(1 << PH4); return.  The falling TRIG edge starts the sensor, which
\* answers or (out of order, disconnected) does not; main goes on to
\* uint32_t distance = get_filtered_distance().
TrigPulseLow ==
    /\ pc = "t7"
    /\ NoInterruptPending
    /\ PH4' = 0
    /\ armed' \in IF echo = 0 /\ answered < MaxPulses THEN {0, 1} ELSE {armed}
    /\ pc' = "f_lo"
    /\ EnterFilter
    /\ UNCHANGED <<fw, measurement_cycle, water_level, distance, pulse_ticks,
                   timer, PE4, PE5, PG5, PE3, echo, adv, answered, icr_kind,
                   start_kind>>
    /\ stuck' = IF stuck = "called" THEN "no" ELSE stuck
    /\ UNCHANGED <<waited, iteration>>
    /\ UNCHANGED <<variants, ringhist>>

trigger_hcsr04 ==
    \/ TrigResetEdge
    \/ TrigResetReady
    \/ TrigClearFlag
    \/ TrigResetCounter
    \/ TrigSelectRising
    \/ TrigPulseHigh
    \/ TrigPulseLow

\* get_filtered_distance(): the loop body loads distance_buffer[i], a 32-bit
\* value, low byte first.
FilterLoadLow ==
    /\ pc = "f_lo"
    /\ NoInterruptPending
    /\ lo' = Lo8(distance_buffer[i])
    /\ pc' = "f_hi"
    /\ UNCHANGED <<fw, measurement_cycle, water_level, distance, i, sum, valid_count,
                   pulse_ticks, timer, pins, envv, hist>>
    /\ UNCHANGED progress
    /\ UNCHANGED <<variants, ringhist>>

\* Variant of Accumulate that counts every slot.
AccumulateAll(v) ==
    /\ sum' = sum + v
    /\ valid_count' = valid_count + 1

\* if(distance_buffer[i] > 0){ sum += distance_buffer[i]; valid_count++; }
Accumulate(v) ==
    IF v > 0
    THEN /\ sum' = sum + v
         /\ valid_count' = valid_count + 1
    ELSE UNCHANGED <<sum, valid_count>>

FilterLoadHigh ==
    /\ pc = "f_hi"
    /\ NoInterruptPending
    /\ Accumulate(Join(lo, Hi24(distance_buffer[i])))
    /\ lo' = 0
    /\ i' = i + 1
    /\ pc' = IF i + 1 < DISTANCE_SAMPLES THEN "f_lo" ELSE "f_ret"
    /\ UNCHANGED <<fw, measurement_cycle, water_level, distance, pulse_ticks, timer,
                   pins, envv, hist>>
    /\ UNCHANGED progress
    /\ UNCHANGED <<variants, ringhist>>

\* if(valid_count > 0) return sum / valid_count;
FilterReturnAverage ==
    /\ pc = "f_ret"
    /\ NoInterruptPending
    /\ valid_count > 0
    /\ distance' = sum \div valid_count
    /\ i' = 0 /\ sum' = 0 /\ valid_count' = 0 /\ lo' = 0
    /\ pc' = "decide"
    /\ UNCHANGED <<fw, measurement_cycle, water_level, pulse_ticks, timer, pins, envv,
                   hist>>
    /\ UNCHANGED progress
    /\ UNCHANGED <<variants, ringhist>>

\* return distance_cm;  a volatile 32-bit load, low byte first.
FilterFallbackLow ==
    /\ pc = "f_ret"
    /\ NoInterruptPending
    /\ valid_count = 0
    /\ lo' = Lo8(distance_cm)
    /\ pc' = "d_hi"
    /\ UNCHANGED <<fw, measurement_cycle, water_level, distance, i, sum, valid_count,
                   pulse_ticks, timer, pins, envv, hist>>
    /\ UNCHANGED progress
    /\ UNCHANGED <<variants, ringhist>>

\* Variant of FallbackValue that reports no reading.
FallbackValueZero(l, h) == 0

\* The value of the 32-bit load of distance_cm.
FallbackValue(l, h) == Join(l, h)

FilterFallbackHigh ==
    /\ pc = "d_hi"
    /\ NoInterruptPending
    /\ distance' = FallbackValue(lo, Hi24(distance_cm))
    /\ i' = 0 /\ sum' = 0 /\ valid_count' = 0 /\ lo' = 0
    /\ pc' = "decide"
    /\ UNCHANGED <<fw, measurement_cycle, water_level, pulse_ticks, timer, pins, envv,
                   hist>>
    /\ UNCHANGED progress
    /\ UNCHANGED <<variants, ringhist>>

get_filtered_distance ==
    \/ FilterLoadLow
    \/ FilterLoadHigh
    \/ FilterReturnAverage
    \/ FilterFallbackLow
    \/ FilterFallbackHigh

\* control_LEDS(red, yellow, green): the pins are active-low, 0 lights the LED.
control_LEDS(red, yellow, green) ==
    /\ PE4' = IF red = 0 THEN 0 ELSE 1
    /\ PE5' = IF yellow = 0 THEN 0 ELSE 1
    /\ PG5' = IF green = 0 THEN 0 ELSE 1

\* control_buzzer(state): PE3 high when state is nonzero.
control_buzzer(state) == PE3' = IF state # 0 THEN 1 ELSE 0

\* Variant of NearOverflow with the threshold rounded up to 8.
NearOverflowToEight(d) == d > 0 /\ d <= 8

\* distance > 0 && distance <= HALFWAY_LEVEL_THRESHOLD   (7.5f)
NearOverflow(d) == d > 0 /\ 2 * d <= 15

\* distance > HALFWAY_LEVEL_THRESHOLD && distance <= OVERFLOW_WARNING_THRESHOLD   (15.0f)
HalfwayLevel(d) == 2 * d > 15 /\ d <= 15

\* The if / else-if chain of the decision phase.
Decide ==
    /\ pc = "decide"
    /\ NoInterruptPending
    /\ IF water_level > WATER_CONTAMINATION_THRESHOLD
       THEN control_LEDS(0, 1, 1) /\ control_buzzer(0)
       ELSE IF NearOverflow(distance)
       THEN control_LEDS(1, 1, 0) /\ control_buzzer(0)
       ELSE IF HalfwayLevel(distance)
       THEN control_LEDS(1, 0, 1) /\ UNCHANGED PE3
       ELSE control_LEDS(1, 1, 1) /\ control_buzzer(1)
    /\ snaps' = {}
    /\ pc' = "delay"
    /\ UNCHANGED <<fw, measurement_cycle, water_level, distance, filt, pulse_ticks,
                   timer, PH4, envv, icr_kind, start_kind>>
    /\ calm' = TRUE
    /\ UNCHANGED <<stuck, waited, iteration>>
    /\ UNCHANGED <<variants, ringhist>>

\* Variant of NextCycle that wraps one iteration late.
NextCycleLate(c) ==
    IF (c + 1) % 256 > MeasurementPeriod THEN 0 ELSE (c + 1) % 256

\* measurement_cycle++; if(measurement_cycle >= 60) measurement_cycle = 0;  (uint8_t)
NextCycle(c) ==
    IF (c + 1) % 256 >= MeasurementPeriod THEN 0 ELSE (c + 1) % 256

\* _delay_ms(1); measurement_cycle++; if(measurement_cycle >= 60) measurement_cycle = 0;
\* The sensor raises the echo line about 0.5 ms after the trigger pulse, so an
\* answered trigger has its rising edge before the 1 ms delay is over.
LoopEnd ==
    /\ pc = "delay"
    /\ NoInterruptPending
    /\ armed = 0
    /\ measurement_cycle' = NextCycle(measurement_cycle)
    /\ distance' = 0
    /\ pc' = "top"
    /\ UNCHANGED <<fw, water_level, filt, pulse_ticks, timer, pins, envv, hist>>
    /\ waited' = IF stuck = "set" /\ waited <= MeasurementPeriod THEN waited + 1 ELSE waited
    /\ iteration' = IF iteration < MaxIterations THEN iteration + 1 ELSE iteration
    /\ UNCHANGED <<stuck, calm>>
    /\ UNCHANGED <<variants, ringhist>>

MainStep ==
    \/ LoopTop
    \/ ReadWaterSensor
    \/ trigger_hcsr04
    \/ get_filtered_distance
    \/ Decide
    \/ LoopEnd

Environment ==
    \/ EchoRise
    \/ EchoFall
    \/ Advance

Next ==
    \/ MainStep
    \/ TIMER5_CAPT
    \/ Environment

Spec == Init /\ [][Next]_vars

\* The processor executes the next main-context instruction unless an
\* interrupt is pending, serves a pending capture interrupt, and an answering
\* sensor raises its echo line.
FairSpec ==
    /\ Spec
    /\ WF_vars(MainStep)
    /\ WF_vars(TIMER5_CAPT)
    /\ WF_vars(EchoRise)

\* ----------------------------------------------- the ring over many samples

\* The firmware at the top of an iteration that calls trigger_hcsr04, with a
\* clean water reading and the last echo just over.  Either it is iteration
\* 181 and the three measurements so far gave 300 cm each, the sensor
\* answering one further trigger; or it is iteration 121, both pulses so far
\* were too short to be valid and the ring is still empty.
InitRing ==
    /\ Timer1Idle /\ TankIdle
    /\ measurement_ready = 1 /\ pulse_start = 0 /\ edge_count = 0
    /\ \/ /\ distance_cm = 300
          /\ distance_buffer = [k \in 0..(DISTANCE_SAMPLES - 1) |-> 300]
          /\ distance_index = 0
          /\ RingHistory(DISTANCE_SAMPLES, 300)
          /\ pulse_ticks = EchoStep /\ TCNT5 = EchoStep /\ ICR5 = EchoStep
          /\ adv = 1 /\ answered = MaxPulses - 1
          /\ iteration = MaxIterations
       \/ /\ distance_cm = 0
          /\ distance_buffer = ZeroBuffer
          /\ distance_index = 0
          /\ RingHistory(0, 0)
          /\ pulse_ticks = 0 /\ TCNT5 = 0 /\ ICR5 = 0
          /\ adv = 0 /\ answered = 2
          /\ iteration = 121
    /\ pc = "top" /\ measurement_cycle = 0 /\ water_level = 100 /\ distance = 0
    /\ i = 0 /\ sum = 0 /\ valid_count = 0 /\ lo = 0
    /\ ICES5 = 1 /\ ICF5 = 0
    /\ PH4 = 0 /\ PE4 = 1 /\ PE5 = 1 /\ PG5 = 1 /\ PE3 = 1
    /\ echo = 0 /\ armed = 0
    /\ icr_kind = "fall" /\ start_kind = "rise" /\ snaps = {}
    /\ stuck = "no" /\ waited = 0 /\ calm = TRUE

\* The steps of Next, the call of trigger_hcsr04 recording the sample ages.
NextRing ==
    \/ LoopTop
    \/ ReadWaterSensor
    \/ TrigResetEdgeAged
    \/ TrigResetReady
    \/ TrigClearFlag
    \/ TrigResetCounter
    \/ TrigSelectRising
    \/ TrigPulseHigh
    \/ TrigPulseLow
    \/ get_filtered_distance
    \/ Decide
    \/ LoopEnd
    \/ TIMER5_CAPT
    \/ Environment

SpecRing == InitRing /\ [][NextRing]_vars

\* ------------------------------------- the capture handler on its own inputs

\* A handler invocation on a pending capture: the stored start and the latched
\* count range over sampled 16-bit values; the ring is empty with the cursor at
\* its first slot, or holds three or more earlier samples of 17 cm with the
\* cursor at any slot.
InitCapture ==
    /\ InitCommon
    /\ Timer1Idle /\ TankIdle
    /\ pc = "delay"
    /\ snaps = {}
    /\ edge_count \in {0, 1}
    /\ ICES5 = 1 - edge_count
    /\ ICF5 = 1
    /\ pulse_start \in StartSamples
    /\ \E w \in WidthSamples : ICR5 = (pulse_start + w) % TimerModulus
    /\ \/ /\ distance_cm = 0 /\ distance_buffer = ZeroBuffer
          /\ distance_index = 0
          /\ RingHistory(0, 0)
       \/ /\ distance_cm = 17
          /\ distance_buffer = [k \in 0..(DISTANCE_SAMPLES - 1) |-> 17]
          /\ distance_index \in 0..(DISTANCE_SAMPLES - 1)
          /\ RingHistory(DISTANCE_SAMPLES + distance_index, 17)

SpecCapture == InitCapture /\ [][TIMER5_CAPT]_vars

\* ------------------------------------------ the filter on its own inputs

\* A call of get_filtered_distance that no interrupt preempts.
InitFilter ==
    /\ InitCommon
    /\ Timer1Idle /\ TankIdle
    /\ pc = "f_lo"
    /\ pulse_start = 0 /\ edge_count = 0
    /\ ICR5 = 0 /\ ICES5 = 1 /\ ICF5 = 0
    /\ distance_buffer \in [0..(DISTANCE_SAMPLES - 1) -> FilterSamples]
    /\ distance_index = 0
    /\ RingHistory(0, 0)
    /\ distance_cm \in {0, 20}
    /\ snaps = {FilterOf(distance_buffer, distance_cm)}

SpecFilter == InitFilter /\ [][get_filtered_distance]_vars

\* ------------------------------------ the decision chain on its own inputs

\* Filtered distances on both sides of each threshold of the chain.
DecideDistances == {0, 1, 5, 7, 8, 10, 15, 16, 300}

\* Levels of PE4, PE5, PG5, PE3 as the decision of an earlier iteration left
\* them: contamination, overflow, half-full (the buzzer pin at either level)
\* and empty.
DecidedOutputs ==
    { <<0, 1, 1, 0>>, <<1, 1, 0, 0>>, <<1, 0, 1, 0>>, <<1, 0, 1, 1>>, <<1, 1, 1, 1>> }

\* The levels the port initialisation of main() sets.
StartupOutputs == <<1, 1, 1, 0>>

\* main() about to enter the decision chain: in the first iteration, with the
\* ports as initialised and no distance yet, or in a later one, with the
\* outputs of an earlier decision and a ring of equal samples.
InitDecide ==
    /\ Timer1Idle /\ TankIdle
    /\ pc = "decide"
    /\ water_level \in AdcSamples
    /\ \/ /\ distance = 0
          /\ PE4 = StartupOutputs[1] /\ PE5 = StartupOutputs[2]
          /\ PG5 = StartupOutputs[3] /\ PE3 = StartupOutputs[4]
          /\ iteration = 1
       \/ /\ distance \in DecideDistances
          /\ \E out \in DecidedOutputs :
                PE4 = out[1] /\ PE5 = out[2] /\ PG5 = out[3] /\ PE3 = out[4]
          /\ iteration = 2
    /\ measurement_cycle = iteration - 1
    /\ distance_cm = distance
    /\ distance_buffer = [k \in 0..(DISTANCE_SAMPLES - 1) |-> distance]
    /\ distance_index = 0
    /\ RingHistory(IF distance > 0 THEN DISTANCE_SAMPLES ELSE 0, distance)
    /\ measurement_ready = IF distance > 0 THEN 1 ELSE 0
    /\ pulse_start = 0 /\ edge_count = 0
    /\ i = 0 /\ sum = 0 /\ valid_count = 0 /\ lo = 0
    /\ pulse_ticks = 0
    /\ TCNT5 = 0 /\ ICR5 = 0 /\ ICES5 = 1 /\ ICF5 = 0
    /\ PH4 = 0
    /\ echo = 0 /\ armed = 0 /\ adv = 0 /\ answered = 0
    /\ icr_kind = "none" /\ start_kind = "none"
    /\ snaps = {distance}
    /\ stuck = "no" /\ waited = 0 /\ calm = TRUE

SpecDecide == InitDecide /\ [][Decide]_vars

\* ------------------------------------- Timer1 variant (unnamed/part_000)

\* uint16_t pulse_ticks of ISR(TIMER1_CAPT_vect).
Timer1PulseTicks(start, end) ==
    IF end >= start THEN (end - start) % TimerModulus
    ELSE ((65535 - start) + end) % TimerModulus

\* if(pulse_us > 150 && pulse_us < 23500)
Timer1ValidPulse(us) == us > MinPulseUs /\ us < MaxPulseUs

\* distance_cm = (pulse_us * 17) / 1000;
Timer1Distance(us) == (us * 17) \div 1000

\* ISR(TIMER1_CAPT_vect): both stages.
TIMER1_CAPT ==
    /\ ICF1 = 1
    /\ ICF1' = 0
    /\ IF edge_count = 0
       THEN /\ pulse_start' = ICR1
            /\ edge_count' = 1
            /\ ICES1' = 0
            /\ UNCHANGED <<measurement_ready, distance_cm, pulse_ticks>>
       ELSE /\ LET pulse_end == ICR1
                   ticks == Timer1PulseTicks(pulse_start, pulse_end)
                   pulse_us == PulseUs(ticks)
               IN /\ pulse_ticks' = ticks
                  /\ distance_cm' = IF Timer1ValidPulse(pulse_us)
                                    THEN Timer1Distance(pulse_us) ELSE 0
            /\ measurement_ready' = 1
            /\ edge_count' = 0
            /\ ICES1' = 1
            /\ UNCHANGED pulse_start
    /\ UNCHANGED <<distance_buffer, distance_index, mainv, filt, timer, pins, envv,
                   hist, progress, ringhist, ICR1, TCNT1, tankv, jsonv>>

\* A handler invocation on a pending capture, the stored start and the latched
\* count ranging over the sampled 16-bit values.
InitTimer1 ==
    /\ InitCommon
    /\ TankIdle
    /\ pc = "top"
    /\ snaps = {}
    /\ distance_buffer = ZeroBuffer /\ distance_index = 0
    /\ RingHistory(0, 0)
    /\ ICR5 = 0 /\ ICES5 = 1 /\ ICF5 = 0
    /\ edge_count \in {0, 1}
    /\ ICES1 = 1 - edge_count
    /\ ICF1 = 1 /\ TCNT1 = 0
    /\ pulse_start \in StartSamples
    /\ \E w \in WidthSamples : ICR1 = (pulse_start + w) % TimerModulus
    /\ distance_cm \in {0, 17}

SpecTimer1 == InitTimer1 /\ [][TIMER1_CAPT]_vars

\* ---- main() of the Timer1 variant with the sensor

\* ADC readings around the threshold, whole milliseconds an echo pulse lasts
\* (all inside the accepted window), and the ticks from the start of
\* _delay_ms(1) to the edges of the echo line (the sensor raises the line about
\* 450 us after the trigger pulse).
Timer1AdcSamples == {99, 100}
Timer1EchoMs == {1, 5, 15}
Timer1EdgeTicks == 900

\* control_LEDS of part_000: the three pins are cleared, then set for each
\* nonzero argument.
Timer1ControlLEDS(red, yellow, green) ==
    /\ PE4' = IF red # 0 THEN 1 ELSE 0
    /\ PE5' = IF yellow # 0 THEN 1 ELSE 0
    /\ PG5' = IF green # 0 THEN 1 ELSE 0

\* What the loop, the handler and the sensor of this variant leave alone.  The
\* sketch drives PD2, PD3, PD4, PD5 and PD7 where the Mega firmware drives PE4,
\* PE5, PG5, PE3 and PH4; the pin variables stand for either set.
timer1frame == <<distance_buffer, distance_index, filt, timer, hist, stuck, waited,
                 calm, ringhist, tankv, jsonv>>

\* water_level = read_water_sensor(); if(measurement_cycle == 0) trigger_hcsr04();
\* The sensor takes a trigger pulse only when its echo line is low.
Timer1LoopTop ==
    /\ pc = "top"
    /\ ICF1 = 0
    /\ water_level' \in Timer1AdcSamples
    /\ IF measurement_cycle = 0
       THEN /\ edge_count' = 0
            /\ measurement_ready' = 0
            /\ TCNT1' = 0
            /\ ICES1' = 1
            /\ ICF1' = 0
            /\ PH4' = 0
            /\ armed' = IF echo = 1 THEN 0 ELSE 1
       ELSE UNCHANGED <<edge_count, measurement_ready, TCNT1, ICES1, ICF1, PH4, armed>>
    /\ pc' = "decide"
    /\ UNCHANGED <<timer1frame, distance_cm, pulse_start, pulse_ticks,
                   measurement_cycle, distance, PE4, PE5, PG5, PE3, echo, adv,
                   answered, iteration, ICR1>>

\* distance = distance_cm; the if / else-if chain of part_000.
Timer1Decide ==
    /\ pc = "decide"
    /\ ICF1 = 0
    /\ distance' = distance_cm
    /\ IF water_level < WATER_CONTAMINATION_THRESHOLD
       THEN Timer1ControlLEDS(0, 1, 1) /\ control_buzzer(1)
       ELSE IF NearOverflow(distance')
       THEN Timer1ControlLEDS(1, 1, 0) /\ control_buzzer(1)
       ELSE IF HalfwayLevel(distance')
       THEN Timer1ControlLEDS(1, 0, 1) /\ control_buzzer(0)
       ELSE Timer1ControlLEDS(1, 1, 1) /\ control_buzzer(0)
    /\ pc' = "delay"
    /\ UNCHANGED <<timer1frame, fw, pulse_ticks, measurement_cycle, water_level,
                   PH4, envv, iteration, timer1>>

\* _delay_ms(1); measurement_cycle++; if(measurement_cycle >= 10) measurement_cycle = 0;
\* The counter runs 2000 ticks on; an echo pulse that has lasted the longest
\* sampled time ends before the delay does.
Timer1LoopEnd ==
    /\ pc = "delay"
    /\ ICF1 = 0 /\ armed = 0
    /\ echo = 1 => \E w \in Timer1EchoMs : adv < w
    /\ iteration < MaxTimer1Iterations
    /\ TCNT1' = (TCNT1 + Timer1TicksPerMs) % TimerModulus
    /\ adv' = IF echo = 1 THEN adv + 1 ELSE adv
    /\ measurement_cycle' = IF (measurement_cycle + 1) % 256 >= Timer1Period THEN 0
                            ELSE (measurement_cycle + 1) % 256
    /\ iteration' = iteration + 1
    /\ pc' = "top"
    /\ UNCHANGED <<timer1frame, fw, pulse_ticks, water_level, distance, pins,
                   echo, armed, answered, ICR1, ICES1, ICF1>>

\* The sensor answers the trigger pulse: the echo line rises during the delay
\* of the same iteration.
Timer1EchoRise ==
    /\ armed = 1 /\ echo = 0
    /\ pc = "delay"
    /\ echo' = 1 /\ armed' = 0 /\ adv' = 0 /\ answered' = answered + 1
    /\ IF ICES1 = 1
       THEN ICR1' = (TCNT1 + Timer1EdgeTicks) % TimerModulus /\ ICF1' = 1
       ELSE UNCHANGED <<ICR1, ICF1>>
    /\ UNCHANGED <<timer1frame, fw, pulse_ticks, mainv, pins, iteration, ICES1,
                   TCNT1>>

\* The echo line falls when the pulse has lasted one of the sampled times.
Timer1EchoFall ==
    /\ echo = 1 /\ adv \in Timer1EchoMs
    /\ pc = "delay"
    /\ ICF1 = 0
    /\ echo' = 0
    /\ IF ICES1 = 0
       THEN ICR1' = (TCNT1 + Timer1EdgeTicks) % TimerModulus /\ ICF1' = 1
       ELSE UNCHANGED <<ICR1, ICF1>>
    /\ UNCHANGED <<timer1frame, fw, pulse_ticks, mainv, pins, armed, adv,
                   answered, iteration, ICES1, TCNT1>>

Timer1Next ==
    \/ Timer1LoopTop
    \/ Timer1Decide
    \/ Timer1LoopEnd
    \/ Timer1EchoRise
    \/ Timer1EchoFall
    \/ TIMER1_CAPT

\* main() of part_000 at the top of while(1): outputs low,
\* init_timer1_input_capture() and sei() done.
InitTimer1Loop ==
    /\ TankIdle
    /\ Timer1Idle
    /\ measurement_ready = 0 /\ distance_cm = 0 /\ pulse_start = 0 /\ edge_count = 0
    /\ distance_buffer = ZeroBuffer /\ distance_index = 0
    /\ RingHistory(0, 0)
    /\ pc = "top" /\ measurement_cycle = 0 /\ water_level = 0 /\ distance = 0
    /\ i = 0 /\ sum = 0 /\ valid_count = 0 /\ lo = 0
    /\ pulse_ticks = 0
    /\ TCNT5 = 0 /\ ICR5 = 0 /\ ICES5 = 1 /\ ICF5 = 0
    /\ PH4 = 0 /\ PE4 = 0 /\ PE5 = 0 /\ PG5 = 0 /\ PE3 = 0
    /\ echo = 0 /\ armed = 0 /\ adv = 0 /\ answered = 0
    /\ icr_kind = "none" /\ start_kind = "none" /\ snaps = {}
    /\ stuck = "no" /\ waited = 0 /\ iteration = 1 /\ calm = TRUE

SpecTimer1Loop == InitTimer1Loop /\ [][Timer1Next]_vars

\* ------------------------------- tank-height variant (unnamed/part_002)

DigitSeq == <<"0", "1", "2", "3", "4", "5", "6", "7", "8", "9">>
DigitChars == {DigitSeq[k] : k \in 1..10}
DigitValue(c) == (CHOOSE k \in 1..10 : DigitSeq[k] = c) - 1

\* The integer a sequence of decimal digits denotes.
RECURSIVE DigitsValue(_)
DigitsValue(ds) ==
    IF ds = << >> THEN 0
    ELSE DigitsValue(SubSeq(ds, 1, Len(ds) - 1)) * 10 + DigitValue(ds[Len(ds)])

\* The integer an inbound line (without its newline) denotes.
LineValue(text) ==
    IF text[1] = "-" THEN 0 - DigitsValue(Tail(text)) ELSE DigitsValue(text)

\* Lines the serial peer sends.
TankLines ==
    { <<"-", "5">>, <<"0">>, <<"9", "9", "9", "9">>, <<"5", "0", "0">>,
      <<"2", "0", "0">>, <<"1", "5">>,
      <<"9", "9", "9", "9", "9", "9", "9">>,
      <<"1", "2", "3", "4", "5", "6", "7", "8", "9">>,
      <<"6", "5", "7", "3", "7">> }

\* ADC readings of the water sensor, distances published by the capture
\* handler and tank heights set by earlier commands.
TankAdcSamples == {100, 101}
TankDistances == {0, 3, 10, 15, 20}
TankHeights == {10, 15, 200}

\* Loop iterations completed at the instant the model starts from: program
\* start, and two iterations before the one that is both the 1500th (a
\* measurement is due) and follows the 3rd status packet.
TankStarts == {0, 1498}

\* The leading decimal digits of the C string in buf.
RECURSIVE LeadingDigits(_, _)
LeadingDigits(buf, k) ==
    IF k >= RxBufferSize \/ buf[k] \notin DigitChars THEN << >>
    ELSE <<buf[k]>> \o LeadingDigits(buf, k + 1)

Wrap16(v) == ((v + 32768) % 65536) - 32768

\* atoi(cmd_local) with a 16-bit int: the value of the leading digits; when it
\* does not fit, the behaviour is undefined: the library's 16-bit accumulation
\* wraps, another may saturate.
atoi(buf) ==
    LET v == DigitsValue(LeadingDigits(buf, 0))
    IN IF v <= IntMax THEN {v} ELSE {Wrap16(v), IntMax}

\* uart_send_uint / uart_send_ulong: the decimal digits of num, most
\* significant first.
RECURSIVE uart_send_uint(_)
uart_send_uint(num) ==
    IF num < 10 THEN <<DigitSeq[num + 1]>>
    ELSE uart_send_uint(num \div 10) \o <<DigitSeq[(num % 10) + 1]>>

\* "H:" <height> "\n"
HeightAck(h) == <<"H", ":">> \o uart_send_uint(h) \o <<"LF">>

\* Variant of send_status_packet with the values of P and W exchanged.
SendStatusPacketAdcFirst(timestamp, percent, adc, st, al) ==
    <<"T", ":">> \o uart_send_uint(timestamp)
    \o <<",", "P", ":">> \o uart_send_uint(adc)
    \o <<",", "W", ":">> \o uart_send_uint(percent)
    \o <<",", "S", ":", DigitSeq[st + 1]>>
    \o <<",", "A", ":", DigitSeq[al + 1], "LF">>

\* send_status_packet: T:<ms>,P:<percent>,W:<adc>,S:<status>,A:<alert>\n
send_status_packet(timestamp, percent, adc, st, al) ==
    <<"T", ":">> \o uart_send_uint(timestamp)
    \o <<",", "P", ":">> \o uart_send_uint(percent)
    \o <<",", "W", ":">> \o uart_send_uint(adc)
    \o <<",", "S", ":", DigitSeq[st + 1]>>
    \o <<",", "A", ":", DigitSeq[al + 1], "LF">>

\* Variant of LevelPercent that takes the distance for the liquid level.
LevelPercentOfDistance(d, height) ==
    LET percent == IF height > 0 THEN ((d * 100) \div height) % 65536 ELSE 0
    IN IF percent > 100 THEN 100 ELSE percent

\* liquid_level_cm and level_percent of main().
LevelPercent(d, height) ==
    LET liquid_level_cm == IF d >= height THEN 0 ELSE height - d
        percent == IF height > 0
                   THEN ((liquid_level_cm * 100) \div height) % 65536 ELSE 0
    IN IF percent > 100 THEN 100 ELSE percent

\* Variant of StatusOf that looks at the level before the water quality.
StatusLevelFirst(adc, percent) ==
    IF percent >= OVERFLOW_PERCENT THEN STATUS_OVERFLOW
    ELSE IF adc > WATER_CONTAMINATION_ADC THEN STATUS_CONTAMINATED
    ELSE IF percent > EMPTY_PERCENT THEN STATUS_HALF_FULL
    ELSE STATUS_EMPTY

\* The if / else-if chain of main(): the status chosen.
StatusOf(adc, percent) ==
    IF adc > WATER_CONTAMINATION_ADC THEN STATUS_CONTAMINATED
    ELSE IF percent >= OVERFLOW_PERCENT THEN STATUS_OVERFLOW
    ELSE IF percent > EMPTY_PERCENT THEN STATUS_HALF_FULL
    ELSE STATUS_EMPTY

\* Variant of set_leds that drives a pin low for a nonzero argument and leaves
\* it alone otherwise.
SetLedsNoClear(red, yellow, green) ==
    /\ PE4' = IF red # 0 THEN 0 ELSE PE4
    /\ PE5' = IF yellow # 0 THEN 0 ELSE PE5
    /\ PG5' = IF green # 0 THEN 0 ELSE PG5

\* set_leds(red, yellow, green): active-low pins, 1 turns the LED on.
set_leds(red, yellow, green) ==
    /\ PE4' = IF red # 0 THEN 0 ELSE 1
    /\ PE5' = IF yellow # 0 THEN 0 ELSE 1
    /\ PG5' = IF green # 0 THEN 0 ELSE 1

\* set_buzzer(on): active-low pin.
set_buzzer(on) == PE3' = IF on # 0 THEN 0 ELSE 1

\* The outputs each branch of the chain selects.
StatusOutputs(st) ==
    IF st = STATUS_CONTAMINATED THEN set_leds(1, 0, 0) /\ set_buzzer(1) /\ alert' = 1
    ELSE IF st = STATUS_OVERFLOW THEN set_leds(0, 0, 1) /\ set_buzzer(1) /\ alert' = 1
    ELSE IF st = STATUS_HALF_FULL THEN set_leds(0, 1, 0) /\ set_buzzer(0) /\ alert' = 0
    ELSE set_leds(0, 0, 0) /\ set_buzzer(0) /\ alert' = 0

\* What the tank-height main loop and its receive handler leave alone.
tankframe == <<measurement_ready, distance_cm, pulse_start, distance_buffer,
               distance_index, pc, measurement_cycle, water_level, filt,
               pulse_ticks, ICR5, envv, hist, progress, ringhist, timer1, client,
               jsonv>>

\* Characters that can arrive between the test of new_command in one loop
\* iteration and the test in the next: one, or more when the iteration
\* converts the ADC or sends a status packet.
RxCredit(cycle, bt) ==
    IF cycle = 0 \/ bt + 1 >= BT_SEND_INTERVAL_MS THEN SlowIterationChars ELSE 1

\* The serial peer puts a line on the wire, during the first iterations
\* followed.
PeerSend ==
    /\ rx_wire = << >>
    /\ lines_sent < MaxLines
    /\ tank_iters < MaxTankIterations
    /\ \E text \in TankLines :
          /\ rx_wire' = text \o <<"LF">>
          /\ wire_value' = LineValue(text)
    /\ lines_sent' = lines_sent + 1
    /\ UNCHANGED <<tankframe, edge_count, distance, timer, pins, tankfw, tankmain,
                   uart_tx, rx_credit, tank_iters, tankhist>>

\* The value of the digit string of a line that denotes v: the line's digits
\* without its sign.
DigitStringValue(v) == IF v < 0 THEN 0 - v ELSE v

\* Variant of RxRoom that takes the last element of the buffer for a digit.
RxRoomToEnd(idx) == idx <= RxBufferSize - 1

\* if(rx_index < sizeof(rx_buffer) - 1)
RxRoom(idx) == idx < RxBufferSize - 1

\* ISR(USART1_RX_vect) on the next character of the wire.
USART1_RX ==
    /\ rx_wire # << >>
    /\ rx_credit > 0
    /\ lines_seen' = IF Head(rx_wire) \in {"LF", "CR"}
                     THEN lines_seen \cup {DigitStringValue(wire_value)}
                     ELSE lines_seen
    /\ LET c == Head(rx_wire)
       IN IF c = "LF" \/ c = "CR"
          THEN IF rx_index > 0
               THEN /\ rx_buffer' = [rx_buffer EXCEPT ![rx_index] = "NUL"]
                    /\ new_command' = 1
                    /\ rx_index' = 0
                    /\ cmd_value' = wire_value
               ELSE UNCHANGED <<rx_buffer, new_command, rx_index, cmd_value>>
          ELSE IF c \in DigitChars
          THEN /\ IF RxRoom(rx_index)
                  THEN /\ rx_buffer' = [rx_buffer EXCEPT ![rx_index] = c]
                       /\ rx_index' = rx_index + 1
                  ELSE /\ rx_index' = 0
                       /\ UNCHANGED rx_buffer
               /\ UNCHANGED <<new_command, cmd_value>>
          ELSE UNCHANGED <<rx_buffer, new_command, rx_index, cmd_value>>
    /\ rx_wire' = Tail(rx_wire)
    /\ rx_credit' = rx_credit - 1
    /\ UNCHANGED <<tankframe, edge_count, distance, timer, pins,
                   container_height_cm, system_time_ms, tankmain, uart_tx,
                   wire_value, lines_sent, tank_iters, height_writes>>

\* Variant of ValidHeight that lets 0 through.
ValidHeightFromZero(h) == h >= 0 /\ h < HeightLimit

\* if(new_height > 0 && new_height < 500)
ValidHeight(h) == h > 0 /\ h < HeightLimit

\* if(new_command){ cli(); copy; new_command = 0; sei(); atoi; range check;
\* assignment and acknowledgement }
TankCommand ==
    /\ tpc = "cmd"
    /\ IF new_command # 0
       THEN /\ new_command' = 0
            /\ \E new_height \in atoi(rx_buffer) :
                  IF ValidHeight(new_height)
                  THEN /\ container_height_cm' = new_height
                       /\ uart_tx' = Append(uart_tx, HeightAck(new_height))
                       /\ height_writes' = height_writes + 1
                  ELSE UNCHANGED <<container_height_cm, uart_tx, height_writes>>
       ELSE UNCHANGED <<new_command, container_height_cm, uart_tx, height_writes>>
    /\ tpc' = "sense"
    /\ rx_credit' = RxCredit(sensor_cycle, bt_timer)
    /\ UNCHANGED <<tankframe, edge_count, distance, timer, pins, rx_buffer, rx_index,
                   system_time_ms, sensor_cycle, bt_timer, water_adc, level_percent,
                   status, alert, rx_wire, wire_value, lines_sent, tank_iters,
                   cmd_value, lines_seen>>

\* if(sensor_cycle == 0){ water_adc = read_water_quality(); trigger_ultrasonic(); }
TankSense ==
    /\ tpc = "sense"
    /\ IF sensor_cycle = 0
       THEN /\ water_adc' \in TankAdcSamples
            /\ edge_count' = 0
            /\ ICF5' = 0
            /\ TCNT5' = 0
            /\ ICES5' = 1
            /\ PH4' = 0
       ELSE UNCHANGED <<water_adc, edge_count, ICF5, TCNT5, ICES5, PH4>>
    /\ tpc' = "level"
    /\ UNCHANGED <<tankframe, distance, PE4, PE5, PG5, PE3, tankfw, sensor_cycle,
                   bt_timer, level_percent, status, alert, uart_tx, peer, tankhist>>

\* distance = distance_cm; height = container_height_cm; level_percent.
TankLevel ==
    /\ tpc = "level"
    /\ distance' = distance_cm
    /\ level_percent' = LevelPercent(distance_cm, container_height_cm)
    /\ tpc' = "status"
    /\ UNCHANGED <<tankframe, edge_count, timer, pins, tankfw, sensor_cycle, bt_timer,
                   water_adc, status, alert, uart_tx, peer, tankhist>>

\* Determine status and control outputs.
TankStatus ==
    /\ tpc = "status"
    /\ status' = StatusOf(water_adc, level_percent)
    /\ StatusOutputs(status')
    /\ tpc' = "report"
    /\ UNCHANGED <<tankframe, edge_count, distance, timer, PH4, tankfw, sensor_cycle,
                   bt_timer, water_adc, level_percent, uart_tx, peer, tankhist>>

\* Variant of ReportDue that lets the counter pass the interval.
ReportDueLate(bt) == (bt + 1) % 65536 > BT_SEND_INTERVAL_MS

\* bt_timer++; if(bt_timer >= BT_SEND_INTERVAL_MS)   (uint16_t)
ReportDue(bt) == (bt + 1) % 65536 >= BT_SEND_INTERVAL_MS

\* bt_timer++; if(bt_timer >= BT_SEND_INTERVAL_MS){ send_status_packet(...); bt_timer = 0; }
TankReport ==
    /\ tpc = "report"
    /\ IF ReportDue(bt_timer)
       THEN /\ uart_tx' = Append(uart_tx,
                   send_status_packet(system_time_ms, level_percent, water_adc,
                                      status, alert))
            /\ bt_timer' = 0
       ELSE /\ bt_timer' = (bt_timer + 1) % 65536
            /\ UNCHANGED uart_tx
    /\ tpc' = "tick"
    /\ UNCHANGED <<tankframe, edge_count, distance, timer, pins, tankfw, sensor_cycle,
                   water_adc, level_percent, status, alert, peer, tankhist>>

\* _delay_ms(1); system_time_ms++; sensor_cycle++; wrap at 60.  The locals of
\* the loop body end their life here.  system_time_ms is a uint32_t counting
\* milliseconds: it wraps after 49 days, far from the instants followed here.
TankTick ==
    /\ tpc = "tick"
    /\ tank_iters < IF lines_sent = 0 THEN MaxSilentIterations ELSE MaxTankIterations
    /\ system_time_ms' = system_time_ms + 1
    /\ sensor_cycle' = IF (sensor_cycle + 1) % 256 >= SENSOR_READ_INTERVAL_MS THEN 0
                       ELSE (sensor_cycle + 1) % 256
    /\ tank_iters' = tank_iters + 1
    /\ distance' = 0 /\ level_percent' = 0 /\ status' = 0 /\ alert' = 0
    /\ tpc' = "cmd"
    /\ UNCHANGED <<tankframe, edge_count, timer, pins, container_height_cm, rx_buffer,
                   rx_index, new_command, bt_timer, water_adc, uart_tx, rx_wire,
                   wire_value, lines_sent, rx_credit, tankhist>>

TankMain ==
    \/ TankCommand
    \/ TankSense
    \/ TankLevel
    \/ TankStatus
    \/ TankReport
    \/ TankTick

TankNext ==
    \/ TankMain
    \/ USART1_RX
    \/ PeerSend

\* main() of the variant at the top of an iteration of while(1), after
\* init_hardware() and sei(): at program start, or later with a distance
\* published, a height set by an earlier command and the outputs as the
\* previous iteration set them for these values.
InitTank ==
    /\ Timer1Idle
    /\ measurement_ready = 0 /\ pulse_start = 0 /\ edge_count = 0
    /\ distance_buffer = ZeroBuffer /\ distance_index = 0
    /\ RingHistory(0, 0)
    /\ pc = "top" /\ measurement_cycle = 0 /\ water_level = 0 /\ distance = 0
    /\ i = 0 /\ sum = 0 /\ valid_count = 0 /\ lo = 0
    /\ pulse_ticks = 0
    /\ TCNT5 = 0 /\ ICR5 = 0 /\ ICES5 = 1 /\ ICF5 = 0
    /\ PH4 = 0
    /\ echo = 0 /\ armed = 0 /\ adv = 0 /\ answered = 0
    /\ icr_kind = "none" /\ start_kind = "none" /\ snaps = {}
    /\ stuck = "no" /\ waited = 0 /\ iteration = 1 /\ calm = TRUE
    /\ rx_buffer = EmptyRxBuffer /\ rx_index = 0 /\ new_command = 0
    /\ tpc = "cmd" /\ level_percent = 0 /\ status = 0 /\ alert = 0
    /\ uart_tx = << >>
    /\ rx_wire = << >> /\ wire_value = 0 /\ lines_sent = 0 /\ tank_iters = 0
    /\ cmd_value = 0 /\ height_writes = 0 /\ lines_seen = {}
    /\ ClientIdle
    /\ JsonIdle
    /\ \E n \in TankStarts :
          /\ system_time_ms = n
          /\ bt_timer = n % BT_SEND_INTERVAL_MS
          /\ sensor_cycle = n % SENSOR_READ_INTERVAL_MS
          /\ rx_credit = 1
          /\ IF n = 0
             THEN /\ distance_cm = 0 /\ water_adc = 0 /\ container_height_cm = 10
                  /\ PE4 = 1 /\ PE5 = 1 /\ PG5 = 1 /\ PE3 = 1
             ELSE /\ distance_cm \in TankDistances
                  /\ water_adc \in TankAdcSamples
                  /\ container_height_cm \in TankHeights
                  /\ LET st == StatusOf(water_adc,
                                        LevelPercent(distance_cm, container_height_cm))
                     IN /\ PE4 = IF st = STATUS_CONTAMINATED THEN 0 ELSE 1
                        /\ PE5 = IF st = STATUS_HALF_FULL THEN 0 ELSE 1
                        /\ PG5 = IF st = STATUS_OVERFLOW THEN 0 ELSE 1
                        /\ PE3 = IF st \in {STATUS_CONTAMINATED, STATUS_OVERFLOW}
                                 THEN 0 ELSE 1

SpecTank == InitTank /\ [][TankNext]_vars

\* The serial peer sends a line ended by a newline or a carriage return, all
\* of it arriving before main() next tests new_command.  The lines exercise
\* the receive handler: no digit, one digit, a character that is no digit in
\* front, and seven, eight and nine digits for a buffer of eight.
PeerBurst ==
    /\ rx_wire = << >>
    /\ lines_sent < MaxLines
    /\ \E text \in { << >>, <<"5">>, <<"-", "5">>,
                     <<"1", "2", "3", "4", "5", "6", "7">>,
                     <<"1", "2", "3", "4", "5", "6", "7", "8">>,
                     <<"1", "2", "3", "4", "5", "6", "7", "8", "9">> },
          term \in {"LF", "CR"} :
          /\ rx_wire' = text \o <<term>>
          /\ wire_value' = IF text = << >> THEN 0 ELSE LineValue(text)
          /\ rx_credit' = Len(text) + 1
    /\ lines_sent' = lines_sent + 1
    /\ UNCHANGED <<tankframe, edge_count, distance, timer, pins, tankfw, tankmain,
                   uart_tx, tank_iters, tankhist>>

\* The receive handler from program start, with the command test of main()
\* that consumes what it hands over.
InitReceive == InitTank /\ system_time_ms = 0

SpecReceive == InitReceive /\ [][PeerBurst \/ USART1_RX \/ TankCommand]_vars

\* ------------------------- companion app (client/lib/screens/sensor_data_screen.dart)

WhiteSpace == {" ", "LF", "CR"}

\* String.trim()
RECURSIVE Trim(_)
Trim(str) ==
    IF str = << >> THEN str
    ELSE IF Head(str) \in WhiteSpace THEN Trim(Tail(str))
    ELSE IF str[Len(str)] \in WhiteSpace THEN Trim(SubSeq(str, 1, Len(str) - 1))
    ELSE str

\* String.split(sep) for a one-character separator.
RECURSIVE Split(_, _)
Split(str, sep) ==
    IF \A k \in 1..Len(str) : str[k] # sep THEN <<str>>
    ELSE LET k == CHOOSE n \in 1..Len(str) :
                      str[n] = sep /\ \A m \in 1..(n - 1) : str[m] # sep
         IN <<SubSeq(str, 1, k - 1)>> \o Split(SubSeq(str, k + 1, Len(str)), sep)

\* int.tryParse: << >> (null) unless the text is an optional sign followed by
\* one or more decimal digits.
IntTryParse(str) ==
    LET digits == IF str # << >> /\ Head(str) \in {"-", "+"} THEN Tail(str) ELSE str
    IN IF digits = << >> \/ \E k \in 1..Len(digits) : digits[k] \notin DigitChars
       THEN << >>
       ELSE IF Head(str) = "-" THEN <<0 - DigitsValue(digits)>>
       ELSE <<DigitsValue(digits)>>

\* The key and the value of a token: the text before its first ':' and the
\* text after it, both trimmed.
TokenKey(token) == Trim(Split(token, ":")[1])
TokenValue(token) ==
    LET k == CHOOSE n \in 1..Len(token) :
                 token[n] = ":" /\ \A m \in 1..(n - 1) : token[m] # ":"
    IN Trim(SubSeq(token, k + 1, Len(token)))

\* What the loop over the tokens leaves in the variable of a key: the parse
\* of the last token that has the key, null when no token has it.
ParsedField(parts, key) ==
    LET hits == {k \in 1..Len(parts) :
                    /\ \E n \in 1..Len(Trim(parts[k])) : Trim(parts[k])[n] = ":"
                    /\ TokenKey(Trim(parts[k])) = key}
    IN IF hits = {} THEN << >>
       ELSE LET last == CHOOSE k \in hits : \A m \in hits : m <= k
            IN IntTryParse(TokenValue(Trim(parts[last])))

\* mapStatus of _parsePlainPacket.
mapStatus(code) ==
    IF code = 3 THEN "CONTAMINATED"
    ELSE IF code = 2 THEN "OVERFLOW"
    ELSE IF code = 1 THEN "HALF_FULL"
    ELSE "EMPTY"

\* _parsePlainPacket(packet): a height confirmation sets tankHeight; a line
\* with at least one of the keys T, P, W, S, A updates the fields whose key
\* parsed.
ParsePlainPacket(packet) ==
    LET str == Trim(packet)
        parts == Split(str, ",")
        parsedTimestamp == ParsedField(parts, <<"T">>)
        parsedP == ParsedField(parts, <<"P">>)
        parsedW == ParsedField(parts, <<"W">>)
        parsedS == ParsedField(parts, <<"S">>)
        parsedA == ParsedField(parts, <<"A">>)
    IN IF str = << >> THEN UNCHANGED <<app_timestamp, app_percentage, app_waterQuality,
                                      app_status, app_alert, app_tankHeight>>
       ELSE IF Len(str) >= 2 /\ SubSeq(str, 1, 2) = <<"H", ":">>
       THEN /\ app_tankHeight' =
                  IF IntTryParse(Trim(SubSeq(str, 3, Len(str)))) # << >>
                  THEN IntTryParse(Trim(SubSeq(str, 3, Len(str))))
                  ELSE app_tankHeight
            /\ UNCHANGED <<app_timestamp, app_percentage, app_waterQuality,
                           app_status, app_alert>>
       ELSE /\ app_timestamp' = IF parsedTimestamp # << >> THEN parsedTimestamp[1]
                                ELSE app_timestamp
            /\ app_percentage' = IF parsedP # << >> THEN parsedP[1] ELSE app_percentage
            /\ app_waterQuality' = IF parsedW # << >> THEN parsedW[1]
                                   ELSE app_waterQuality
            /\ app_status' = IF parsedS # << >> THEN mapStatus(parsedS[1]) ELSE app_status
            /\ app_alert' = IF parsedA # << >> THEN parsedA[1] = 1 ELSE app_alert
            /\ UNCHANGED app_tankHeight

\* _handleIncomingData: the next complete line of the serial stream is cut at
\* its newline, trimmed and, unless empty or JSON, given to _parsePlainPacket.
HandleIncomingData ==
    /\ app_read < Len(uart_tx)
    /\ app_read' = app_read + 1
    /\ ParsePlainPacket(uart_tx[app_read + 1])
    /\ UNCHANGED <<fw, mainv, filt, pulse_ticks, timer, pins, envv, hist, progress,
                   ringhist, timer1, tankfw, tankmain, uart_tx, peer, tankhist,
                   jsonv>>

\* Values of the arguments of send_status_packet.
PacketTimestamps == {0, 499, 12345, 2147483647}
PacketPercents == {0, 5, 50, 100}
PacketAdcs == {0, 100, 101, 1023}

\* main() of the tank-height variant about to send a status packet with
\* sampled arguments.
InitPacket ==
    /\ InitCommon
    /\ Timer1Idle
    /\ ClientIdle
    /\ JsonIdle
    /\ distance_cm = 0 /\ pulse_start = 0 /\ edge_count = 0
    /\ distance_buffer = ZeroBuffer /\ distance_index = 0
    /\ RingHistory(0, 0)
    /\ pc = "top"
    /\ ICR5 = 0 /\ ICES5 = 1 /\ ICF5 = 0
    /\ snaps = {}
    /\ container_height_cm = 10
    /\ rx_buffer = EmptyRxBuffer /\ rx_index = 0 /\ new_command = 0
    /\ tpc = "report" /\ sensor_cycle = 0
    /\ bt_timer = BT_SEND_INTERVAL_MS - 1
    /\ system_time_ms \in PacketTimestamps
    /\ level_percent \in PacketPercents
    /\ water_adc \in PacketAdcs
    /\ status \in STATUS_EMPTY..STATUS_CONTAMINATED
    /\ alert \in {0, 1}
    /\ uart_tx = << >>
    /\ rx_wire = << >> /\ wire_value = 0 /\ lines_sent = 0
    /\ rx_credit = 0 /\ tank_iters = 0
    /\ cmd_value = 0 /\ height_writes = 0 /\ lines_seen = {}

SpecPacket == InitPacket /\ [][TankReport \/ HandleIncomingData]_vars

\* main() of the tank-height variant about to enter its status chain, with the
\* level of the distance published and PE4, PE5, PG5, PE3 as the chain of an
\* earlier iteration left them: contaminated, overflow, half-full, empty.
InitStatus ==
    /\ Timer1Idle
    /\ ClientIdle
    /\ JsonIdle
    /\ measurement_ready = 0 /\ pulse_start = 0 /\ edge_count = 0
    /\ distance_buffer = ZeroBuffer /\ distance_index = 0
    /\ RingHistory(0, 0)
    /\ pc = "top" /\ measurement_cycle = 0 /\ water_level = 0
    /\ i = 0 /\ sum = 0 /\ valid_count = 0 /\ lo = 0
    /\ pulse_ticks = 0
    /\ TCNT5 = 0 /\ ICR5 = 0 /\ ICES5 = 1 /\ ICF5 = 0
    /\ PH4 = 0
    /\ echo = 0 /\ armed = 0 /\ adv = 0 /\ answered = 0
    /\ icr_kind = "none" /\ start_kind = "none" /\ snaps = {}
    /\ stuck = "no" /\ waited = 0 /\ iteration = 2 /\ calm = TRUE
    /\ rx_buffer = EmptyRxBuffer /\ rx_index = 0 /\ new_command = 0
    /\ tpc = "status" /\ status = 0 /\ alert = 0
    /\ uart_tx = << >>
    /\ rx_wire = << >> /\ wire_value = 0 /\ lines_sent = 0 /\ tank_iters = 1
    /\ rx_credit = 1
    /\ cmd_value = 0 /\ height_writes = 0 /\ lines_seen = {}
    /\ system_time_ms = 1 /\ bt_timer = 1 /\ sensor_cycle = 1
    /\ distance_cm \in TankDistances
    /\ distance = distance_cm
    /\ water_adc \in TankAdcSamples
    /\ container_height_cm \in TankHeights
    /\ level_percent = LevelPercent(distance_cm, container_height_cm)
    /\ \E out \in { <<0, 1, 1, 0>>, <<1, 1, 0, 0>>, <<1, 0, 1, 1>>, <<1, 1, 1, 1>> } :
          PE4 = out[1] /\ PE5 = out[2] /\ PG5 = out[3] /\ PE3 = out[4]

\* The output decisions of the two firmwares that drive three LEDs: the chain
\* of src/main.cpp and the chain of the tank-height variant, each from the
\* states its loop enters it in.
SpecLeds == (InitDecide \/ InitStatus) /\ [][Decide \/ TankStatus]_vars

\* ------------------------------- JSON telemetry variant (unnamed/part_001)

\* ADC readings of the water sensor, and the distance the three ring slots
\* hold when the loop is taken up (0: the ring is empty, as at program start).
JsonAdcSamples == {100, 101}
JsonDistances == {0, 5, 10, 300}

\* The if / else-if chain of main(): the status chosen.
JsonStatusOf(water, d) ==
    IF water > WATER_CONTAMINATION_THRESHOLD THEN STATUS_CONTAMINATED
    ELSE IF NearOverflow(d) THEN STATUS_OVERFLOW_WARNING
    ELSE IF HalfwayLevel(d) THEN STATUS_HALF_FULL
    ELSE STATUS_EMPTY

\* uart1_send_number: the decimal digits of num.
uart1_send_number(num) == IF num = 0 THEN <<"0">> ELSE uart_send_uint(num)

\* uart1_send_float applied to a whole number: its digits, a point and the
\* first decimal place.
uart1_send_float(num) == uart1_send_number(num) \o <<".", "0">>

\* The switch of send_sensor_data: the text of the status field.
StatusText(st) ==
    IF st = STATUS_CONTAMINATED THEN "CONTAMINATED"
    ELSE IF st = STATUS_OVERFLOW_WARNING THEN "OVERFLOW"
    ELSE IF st = STATUS_HALF_FULL THEN "HALF_FULL"
    ELSE "EMPTY"

\* send_sensor_data: it calls get_filtered_distance and read_water_sensor
\* itself, and takes the status and the alert flag from the globals.  The
\* record is kept by its four fields, each as the text sent.
send_sensor_data ==
    \E water \in JsonAdcSamples :
        LET d == FilterOf(distance_buffer, distance_cm)
        IN uart_tx' = Append(uart_tx,
                         [distance |-> IF d > 0 THEN uart1_send_float(d) ELSE <<"0">>,
                          water |-> uart1_send_number(water),
                          status |-> StatusText(current_status),
                          alert |-> DigitSeq[alert_active + 1]])

\* What the loop of the variant leaves alone: the capture handler's state,
\* the echo line and the other variants.
jsonframe == <<pulse_start, distance_cm, distance_buffer, distance_index, filt,
               pulse_ticks, ICR5, envv, hist, stuck, waited, calm, ringhist, timer1,
               tankfw, tankmain, peer, tankhist, client>>

\* if(measurement_cycle == 0){ water_level = read_water_sensor(); trigger_hcsr04(); }
JsonSense ==
    /\ pc = "top"
    /\ IF measurement_cycle = 0
       THEN /\ water_level' \in JsonAdcSamples
            /\ edge_count' = 0 /\ measurement_ready' = 0
            /\ ICF5' = 0 /\ TCNT5' = 0 /\ ICES5' = 1
            /\ PH4' = 0
       ELSE UNCHANGED <<water_level, edge_count, measurement_ready, ICF5, TCNT5,
                        ICES5, PH4>>
    /\ pc' = "filter"
    /\ UNCHANGED <<jsonframe, measurement_cycle, distance, PE4, PE5, PG5, PE3,
                   iteration, uart_tx, jsonv>>

\* uint32_t distance = get_filtered_distance();
JsonFilter ==
    /\ pc = "filter"
    /\ distance' = FilterOf(distance_buffer, distance_cm)
    /\ pc' = "decide"
    /\ UNCHANGED <<jsonframe, measurement_ready, edge_count, measurement_cycle,
                   water_level, timer, pins, iteration, uart_tx, jsonv>>

\* The if / else-if chain: outputs, current_status and alert_active.
JsonDecide ==
    /\ pc = "decide"
    /\ current_status' = JsonStatusOf(water_level, distance)
    /\ IF current_status' = STATUS_CONTAMINATED
       THEN control_LEDS(0, 1, 1) /\ control_buzzer(0) /\ alert_active' = 1
       ELSE IF current_status' = STATUS_OVERFLOW_WARNING
       THEN control_LEDS(1, 1, 0) /\ control_buzzer(0) /\ alert_active' = 1
       ELSE IF current_status' = STATUS_HALF_FULL
       THEN control_LEDS(1, 0, 1) /\ control_buzzer(1) /\ alert_active' = 0
       ELSE control_LEDS(1, 1, 1) /\ control_buzzer(1) /\ alert_active' = 0
    /\ pc' = "send"
    /\ UNCHANGED <<jsonframe, measurement_ready, edge_count, measurement_cycle,
                   water_level, distance, timer, PH4, iteration, uart_tx,
                   bt_send_counter>>

\* bt_send_counter++; if(bt_send_counter >= BT_SEND_INTERVAL){ send_sensor_data();
\* bt_send_counter = 0; }   (uint16_t)
JsonSend ==
    /\ pc = "send"
    /\ IF (bt_send_counter + 1) % 65536 >= BT_SEND_INTERVAL
       THEN /\ send_sensor_data
            /\ bt_send_counter' = 0
       ELSE /\ bt_send_counter' = (bt_send_counter + 1) % 65536
            /\ UNCHANGED uart_tx
    /\ pc' = "delay"
    /\ UNCHANGED <<jsonframe, measurement_ready, edge_count, measurement_cycle,
                   water_level, distance, timer, pins, iteration, current_status,
                   alert_active>>

\* _delay_ms(1); measurement_cycle++; wrap at 60.  The local distance ends
\* its life here.
JsonLoopEnd ==
    /\ pc = "delay"
    /\ iteration < MaxJsonIterations
    /\ measurement_cycle' = NextCycle(measurement_cycle)
    /\ iteration' = iteration + 1
    /\ distance' = 0
    /\ pc' = "top"
    /\ UNCHANGED <<jsonframe, measurement_ready, edge_count, water_level, timer,
                   pins, uart_tx, jsonv>>

JsonNext ==
    \/ JsonSense
    \/ JsonFilter
    \/ JsonDecide
    \/ JsonSend
    \/ JsonLoopEnd

\* main() of the variant at the top of an iteration in which both counters
\* are 0: program start, or a later one (every 1500th) with the ring as three
\* equal measurements left it and the outputs as the iteration before set
\* them.  iteration counts the iterations from there.
InitJson ==
    /\ Timer1Idle
    /\ ClientIdle
    /\ container_height_cm = 10
    /\ rx_buffer = EmptyRxBuffer /\ rx_index = 0 /\ new_command = 0
    /\ system_time_ms = 0
    /\ tpc = "cmd" /\ sensor_cycle = 0 /\ bt_timer = 0 /\ water_adc = 0
    /\ level_percent = 0 /\ status = 0 /\ alert = 0
    /\ uart_tx = << >>
    /\ rx_wire = << >> /\ wire_value = 0 /\ lines_sent = 0
    /\ rx_credit = 0 /\ tank_iters = 0
    /\ cmd_value = 0 /\ height_writes = 0 /\ lines_seen = {}
    /\ measurement_ready = 0 /\ pulse_start = 0 /\ edge_count = 0
    /\ distance_index = 0
    /\ pc = "top" /\ measurement_cycle = 0 /\ distance = 0
    /\ i = 0 /\ sum = 0 /\ valid_count = 0 /\ lo = 0
    /\ pulse_ticks = 0
    /\ TCNT5 = 0 /\ ICR5 = 0 /\ ICES5 = 1 /\ ICF5 = 0
    /\ PH4 = 0
    /\ echo = 0 /\ armed = 0 /\ adv = 0 /\ answered = 0
    /\ icr_kind = "none" /\ start_kind = "none" /\ snaps = {}
    /\ stuck = "no" /\ waited = 0 /\ iteration = 1 /\ calm = TRUE
    /\ bt_send_counter = 0
    /\ \E d \in JsonDistances :
          /\ distance_cm = d
          /\ distance_buffer = [k \in 0..(DISTANCE_SAMPLES - 1) |-> d]
          /\ RingHistory(IF d > 0 THEN DISTANCE_SAMPLES ELSE 0, d)
          /\ IF d = 0
             THEN /\ water_level = 0
                  /\ current_status = STATUS_EMPTY /\ alert_active = 0
                  /\ PE4 = 1 /\ PE5 = 1 /\ PG5 = 1 /\ PE3 = 0
             ELSE /\ water_level \in JsonAdcSamples
                  /\ current_status = JsonStatusOf(water_level, d)
                  /\ alert_active = IF current_status \in {STATUS_CONTAMINATED,
                                                            STATUS_OVERFLOW_WARNING}
                                    THEN 1 ELSE 0
                  /\ PE4 = IF current_status = STATUS_CONTAMINATED THEN 0 ELSE 1
                  /\ PE5 = IF current_status = STATUS_HALF_FULL THEN 0 ELSE 1
                  /\ PG5 = IF current_status = STATUS_OVERFLOW_WARNING THEN 0 ELSE 1
                  /\ PE3 = IF alert_active = 1 THEN 0 ELSE 1

SpecJson == InitJson /\ [][JsonNext]_vars

\* ------------------------------------------------------------------ claims

\* A step of the capture handler (the only step that takes the flag from 1 to 0
\* without moving the main context).
IsrStep == ICF5 = 1 /\ ICF5' = 0 /\ pc' = pc

\* C1: when trigger_hcsr04 returns, edge_count is 0 and the capture unit is set
\* to the rising edge, whatever happened during the call.
C1_TriggerReturnsReset ==
    [][pc = "t7" /\ pc' # "t7" => edge_count' = 0 /\ ICES5' = 1]_vars

C3_ValidityWindow ==
    measurement_ready = 1 =>
        LET us == pulse_ticks \div 2
        IN IF us < 150 \/ us > 23500 THEN distance_cm = 0
           ELSE distance_cm = us \div 58

C3_Witness ==
    /\ measurement_ready = 1
    /\ pulse_ticks = 47001
    /\ distance_cm = 405

\* C4: a pair whose echo pulse truly lasted less than 150 us (300 ticks) or more
\* than 23500 us (47000 ticks) publishes 0 and leaves the ring alone.
C4_OutOfWindowDiscarded ==
    [][(/\ IsrStep /\ edge_count = 1
        /\ start_kind = "rise" /\ icr_kind = "fall"
        /\ (TrueTicks < 300 \/ TrueTicks > 47001))
       => distance_cm' = 0 /\ distance_buffer' = distance_buffer]_vars

\* C5: with at least one entry > 0 the call returns the truncated mean of the
\* entries > 0.
C5_FilterAveragesPositive ==
    pc = "decide" /\ Positive(distance_buffer) # {} =>
        distance = SumOver(distance_buffer, Positive(distance_buffer))
                       \div Cardinality(Positive(distance_buffer))

C5_Witness ==
    /\ pc = "decide"
    /\ distance_buffer = [k \in 0..2 |-> IF k = 0 THEN 12 ELSE IF k = 1 THEN 0 ELSE 14]
    /\ distance = 13

\* C6: with every entry 0 the call returns distance_cm.
C6_FilterFallback ==
    pc = "decide" /\ Positive(distance_buffer) = {} => distance = distance_cm

C6_Witness ==
    /\ pc = "decide"
    /\ distance_buffer = ZeroBuffer
    /\ distance_cm = 20 /\ distance = 20

\* C7: distance_cm and distance_buffer change only in a handler step entered
\* with edge_count = 1; edge_count becomes 1 only in a handler step entered with
\* edge_count = 0; a handler step entered with edge_count = 1 ends the pair
\* (edge_count back to 0, measurement_ready set).
C7_PublicationOrder ==
    [][/\ (distance_cm' # distance_cm \/ distance_buffer' # distance_buffer
              => IsrStep /\ edge_count = 1)
       /\ (edge_count' = 1 /\ edge_count # 1 => IsrStep /\ edge_count = 0)
       /\ (IsrStep /\ edge_count = 1 => edge_count' = 0 /\ measurement_ready' = 1)]_vars

C7_Witness ==
    /\ measurement_ready = 1 /\ edge_count = 0
    /\ distance_cm = 300 /\ distance_buffer[0] = 300
    /\ start_kind = "rise" /\ icr_kind = "fall"

\* C8: every pulse width is computed from a pulse_start taken at the rising
\* edge and a pulse_end taken at the falling edge of the echo that answers the
\* most recent trigger, both captured after that trigger reset the counter.
C8_NoStaleEdge ==
    [][IsrStep /\ edge_count = 1 => start_kind = "rise" /\ icr_kind = "fall"]_vars

\* C9: the value get_filtered_distance returns is the filter result of the
\* shared state at one instant of the call.
C9_AtomicRead == pc = "decide" => distance \in snaps

\* C10: no step of the main context changes distance_cm, distance_buffer or
\* distance_index.
C10_MainNeverWrites ==
    [][pc' # pc => UNCHANGED <<distance_cm, distance_buffer, distance_index>>]_vars

C10_Witness ==
    /\ pc = "decide"
    /\ answered = 2
    /\ distance_cm = 300 /\ distance_index = 1 /\ distance = 300

\* C11: distance_index is 0, 1 or 2 before and after every step; a handler step
\* that completes a pair with a pulse inside the validity window moves it to
\* (distance_index + 1) mod 3, and no other step moves it.
C11_IndexAdvance ==
    [][/\ distance_index \in 0..2 /\ distance_index' \in 0..2
       /\ IF IsrStep /\ edge_count = 1
             /\ ValidPulse(PulseUs(PulseTicks(pulse_start, ICR5)))
          THEN distance_index' = (distance_index + 1) % 3
          ELSE distance_index' = distance_index]_vars

\* The cursor was at the last slot, the sample went there, the cursor is back
\* at the first slot.
C11_Witness ==
    /\ measurement_ready = 1
    /\ distance_buffer[2] = 405 /\ distance_buffer[0] = 17
    /\ distance_index = 0

\* C12: once the handler has set edge_count to 1 and no falling edge arrives,
\* trigger_hcsr04 is called before 61 loop iterations have been completed, and
\* edge_count is 0 when that call returns.
C12_StuckPairReset ==
    [][/\ (stuck' = "set" => waited' <= 60)
       /\ (pc = "t7" /\ pc' # "t7" /\ stuck = "called" => edge_count' = 0)]_vars

\* The pair stayed open for 60 iterations, the next call has returned and
\* edge_count is 0 with the echo line still high.
C12_Witness ==
    /\ pc = "f_lo" /\ measurement_cycle = 0 /\ iteration = 61
    /\ echo = 1 /\ answered = 1 /\ ICF5 = 0
    /\ stuck = "no" /\ edge_count = 0 /\ ICES5 = 1

\* C14: measurement_cycle is in 0..59 at the top of the loop; the loop body
\* goes to read_water_sensor exactly when measurement_cycle is 0, which is
\* exactly in iterations 1, 61, 121, ...; read_water_sensor is followed by
\* trigger_hcsr04 and trigger_hcsr04 is called from nowhere else.
C14_TriggerSchedule ==
    [][/\ (pc = "top" => measurement_cycle \in 0..59)
       /\ (pc = "top" /\ pc' # "top" =>
              /\ (pc' = "adc") = (measurement_cycle = 0)
              /\ (iteration < MaxIterations =>
                     (pc' = "adc") = (iteration % 60 = 1)))
       /\ (pc = "adc" /\ pc' # "adc" => pc' = "t1")
       /\ (pc' = "t1" /\ pc # "t1" => pc = "adc")]_vars

\* The third call, in iteration 121.
C14_Witness ==
    /\ pc = "t1" /\ iteration = 121 /\ measurement_cycle = 0

\* C13: a step that is not a capture handler keeps edge_count at 0 and leaves
\* distance_cm, distance_buffer and distance_index alone, also while the main
\* loop retriggers; a get_filtered_distance call during which no handler runs
\* returns the filter result of that unchanged state.
C13_NoEchoHoldsValue ==
    [][/\ (~IsrStep =>
              /\ (edge_count = 0 => edge_count' = 0)
              /\ UNCHANGED <<distance_cm, distance_buffer, distance_index>>)
       /\ (pc # "decide" /\ pc' = "decide" /\ calm' =>
              distance' = FilterOf(distance_buffer', distance_cm'))]_vars

\* The sensor has stopped answering: iteration 121 retriggers, and the call
\* returns the mean of the two samples taken long before.
C13_Witness ==
    /\ pc = "decide" /\ iteration = 121 /\ measurement_cycle = 0 /\ calm
    /\ answered = 2 /\ echo = 0 /\ edge_count = 0
    /\ distance_buffer[0] = 300 /\ distance_buffer[1] = 300 /\ distance = 300

\* C15: the main loop completes an iteration again and again, whatever the
\* capture handler does or fails to do.
C15_LoopNeverBlocks == []<><<LoopEnd>>_vars

\* 121 iterations completed and the handler has never run.
C15_Witness ==
    /\ pc = "top" /\ iteration = MaxIterations
    /\ answered = 0 /\ measurement_ready = 0 /\ edge_count = 0

\* C16: the Timer1 handler's pulse_ticks is pulse_end - pulse_start when
\* pulse_end >= pulse_start and (65536 - pulse_start) + pulse_end when
\* pulse_end < pulse_start.
C16_Timer1Wraparound ==
    measurement_ready = 1 =>
        pulse_ticks = IF ICR1 >= pulse_start THEN ICR1 - pulse_start
                      ELSE (65536 - pulse_start) + ICR1

\* C17: when the status has been chosen with a water reading above 100, it is
\* CONTAMINATED with alert = 1 and the red LED alone lit (active-low pins),
\* whatever the distance and the tank height.
C17_ContaminationFirst ==
    tpc = "report" /\ water_adc > 100 =>
        /\ status = 3 /\ alert = 1
        /\ PE4 = 0 /\ PE5 = 1 /\ PG5 = 1

\* Contaminated water in a tank that is 80 % full.
C17_Witness ==
    /\ tpc = "report" /\ water_adc = 101
    /\ distance = 3 /\ container_height_cm = 15 /\ level_percent = 80
    /\ status = 3 /\ alert = 1

\* C18: with a water reading of at most 100, level_percent is 0 when
\* distance >= height and floor((height - distance) * 100 / height) otherwise,
\* never above 100; the status is OVERFLOW (alert 1) from 50 %, HALF_FULL
\* (alert 0) above 5 % and below 50 %, EMPTY (alert 0) up to 5 %.
C18_LevelAndStatus ==
    tpc = "report" /\ water_adc <= 100 =>
        /\ level_percent =
              IF distance >= container_height_cm THEN 0
              ELSE ((container_height_cm - distance) * 100) \div container_height_cm
        /\ level_percent <= 100
        /\ (level_percent >= 50 => status = 2 /\ alert = 1)
        /\ (level_percent > 5 /\ level_percent < 50 => status = 1 /\ alert = 0)
        /\ (level_percent <= 5 => status = 0 /\ alert = 0)
        /\ (distance = 20 /\ container_height_cm = 15 => status = 0 /\ alert = 0)

\* Distance 3 in a tank of height 15: 80 %, OVERFLOW.
C18_Witness ==
    /\ tpc = "report" /\ water_adc = 100
    /\ distance = 3 /\ container_height_cm = 15
    /\ level_percent = 80 /\ status = 2 /\ alert = 1

\* C19: when the main loop takes up a command raised by a line that denotes
\* an integer <= 0 or >= 500, container_height_cm stays as it is and nothing
\* is sent.
C19_OutOfRangeRejected ==
    [][(/\ tpc = "cmd" /\ tpc' = "sense" /\ new_command = 1
        /\ (cmd_value <= 0 \/ cmd_value >= 500))
       => container_height_cm' = container_height_cm /\ uart_tx' = uart_tx]_vars

\* C20: when the main loop takes up a command raised by a line that denotes
\* an integer n with 0 < n < 500, container_height_cm becomes n and "H:n" is
\* sent; an "H:" line is sent exactly in the steps that assign
\* container_height_cm, and it carries the value assigned.
C20_HeightApplied ==
    [][/\ ((/\ tpc = "cmd" /\ tpc' = "sense" /\ new_command = 1
            /\ cmd_value > 0 /\ cmd_value < 500)
           => /\ container_height_cm' = cmd_value
              /\ uart_tx' = Append(uart_tx, HeightAck(cmd_value)))
       /\ ((/\ Len(uart_tx') > Len(uart_tx)
            /\ uart_tx'[Len(uart_tx')][1] = "H") = (height_writes' # height_writes))
       /\ (height_writes' # height_writes =>
              uart_tx'[Len(uart_tx')] = HeightAck(container_height_cm'))]_vars

\* C21: container_height_cm is in 1..499 in every state, whatever bytes have
\* been received.
C21_HeightInRange == container_height_cm \in 1..499

\* The line 65737 does not fit the 16-bit int: atoi wrapped to 201, which
\* passed the range check and was applied.
C21_Witness ==
    /\ cmd_value = 65737 /\ new_command = 0 /\ height_writes = 1
    /\ container_height_cm = 201

\* C22: once the app has handled a status packet, its timestamp, percentage,
\* water value and alert flag are the arguments send_status_packet was called
\* with, and its status is the name of the firmware's status code.
C22_PacketRoundTrip ==
    app_read = 1 =>
        /\ app_timestamp = system_time_ms
        /\ app_percentage = level_percent
        /\ app_waterQuality = water_adc
        /\ app_alert = (alert = 1)
        /\ app_status = IF status = STATUS_EMPTY THEN "EMPTY"
                        ELSE IF status = STATUS_HALF_FULL THEN "HALF_FULL"
                        ELSE IF status = STATUS_OVERFLOW THEN "OVERFLOW"
                        ELSE "CONTAMINATED"

C22_Witness ==
    /\ app_read = 1
    /\ uart_tx[1][1] = "T"
    /\ app_timestamp = 2147483647 /\ app_percentage = 100 /\ app_waterQuality = 1023
    /\ app_status = "CONTAMINATED" /\ app_alert

\* C23: a status line is sent in a loop iteration exactly when the iteration
\* is the 500th, 1000th, ... (system_time_ms counts the iterations completed),
\* and one line is sent then.
C23_StatusLinePeriod ==
    [][(/\ Len(uart_tx') > Len(uart_tx)
        /\ uart_tx'[Len(uart_tx')][1] = "T")
       = (/\ tpc = "report" /\ tpc' = "tick"
          /\ (system_time_ms + 1) % 500 = 0
          /\ Len(uart_tx') = Len(uart_tx) + 1)]_vars

\* The second status line, sent in iteration 1000 of a run from program start.
C23_Witness ==
    /\ tpc = "tick" /\ system_time_ms = 999 /\ tank_iters = 999
    /\ Len(uart_tx) = 2
    /\ uart_tx[1][3] = "4" /\ uart_tx[2][3] = "9"

\* C24: when the decision chain has run, the LEDs lit (active-low pins) are:
\* red alone when water_level > 100; otherwise green alone for a distance in
\* 1..7, yellow alone for a distance in 8..15, none for 0 or more than 15.
C24_LedSelection ==
    pc = "delay" =>
        <<PE4, PE5, PG5>> =
            IF water_level > 100 THEN <<0, 1, 1>>
            ELSE IF distance \in 1..7 THEN <<1, 1, 0>>
            ELSE IF distance \in 8..15 THEN <<1, 0, 1>>
            ELSE <<1, 1, 1>>

\* Distance 8 with clean water after an iteration that showed contamination:
\* yellow alone.
C24_Witness ==
    /\ pc = "delay" /\ iteration = 2
    /\ water_level = 100 /\ distance = 8
    /\ PE4 = 1 /\ PE5 = 0 /\ PG5 = 1

\* C25: when the decision chain has run, the buzzer pin has the level of the
\* state selected in this iteration: the level the contamination and overflow
\* branches set (PE3 low) in those two states, the opposite level in the
\* half-full and empty states.
C25_BuzzerOfState ==
    pc = "delay" =>
        PE3 = IF water_level > 100 \/ distance \in 1..7 THEN 0 ELSE 1

\* C26: a handler run that finds edge_count = 0 stores the captured count in
\* pulse_start, sets edge_count to 1, selects the falling edge and changes
\* nothing else of the program's state; a run that finds edge_count = 1 ends
\* with edge_count = 0 and the rising edge selected, for a valid and for an
\* invalid pulse.
C26_HandlerStages ==
    [][/\ (IsrStep /\ edge_count = 0 =>
              /\ pulse_start' = ICR5 /\ edge_count' = 1 /\ ICES5' = 0
              /\ UNCHANGED <<measurement_ready, distance_cm, distance_buffer,
                             distance_index, mainv, filt, TCNT5, ICR5, pins>>)
       /\ (IsrStep /\ edge_count = 1 => edge_count' = 0 /\ ICES5' = 1)]_vars

\* Stage 1 has run on a captured count of 299.
C26_Witness ==
    /\ edge_count = 1 /\ ICES5 = 0 /\ ICF5 = 0
    /\ ICR5 = 299 /\ pulse_start = 299
    /\ distance_cm = 17 /\ measurement_ready = 0

\* C27: a handler run that completes a pair whose computed pulse width is
\* outside 150..23500 us sets distance_cm to 0 and leaves every ring entry and
\* the cursor as they are, and the filter result of the shared state stays
\* what it was.
C27_InvalidPairFrame ==
    [][(/\ IsrStep /\ edge_count = 1
        /\ (pulse_ticks' \div 2) \notin 150..23500)
       => /\ distance_cm' = 0
          /\ UNCHANGED <<distance_buffer, distance_index>>
          /\ FilterOf(distance_buffer', distance_cm')
                 = FilterOf(distance_buffer, distance_cm)]_vars

\* A pulse of 149 us after earlier samples of 17 cm: discarded, the ring whole.
C27_Witness ==
    /\ measurement_ready = 1 /\ pulse_ticks = 299
    /\ distance_cm = 0
    /\ distance_buffer = [k \in 0..2 |-> 17] /\ distance_index = 1

\* C28: with k the number of valid measurements completed, the j-th of the
\* last min(k, 3) sits in slot (j - 1) mod 3, every other slot is 0 and
\* distance_index is k mod 3.
C28_RingContents ==
    LET k == Len(valid_log)
        recent == {j \in 1..k : j > k - 3}
    IN /\ distance_index = k % 3
       /\ \A j \in recent : distance_buffer[(j - 1) % 3] = valid_log[j]
       /\ \A s \in 0..2 : (\A j \in recent : (j - 1) % 3 # s) => distance_buffer[s] = 0

\* Four valid measurements: the fourth (35 cm) has replaced the first in slot 0.
C28_Witness ==
    /\ valid_log = <<300, 300, 300, 35>>
    /\ distance_buffer = [k \in 0..2 |-> IF k = 0 THEN 35 ELSE 300]
    /\ distance_index = 1

\* C29 as stated: a stored sample does not live to see a fourth call of
\* trigger_hcsr04 after the one whose echo stored it.
C29_StaleWithinThreePeriods ==
    \A s \in 0..2 : distance_buffer[s] > 0 => slot_age[s] <= 3

\* C29 as amended: a stored sample is overwritten by the third valid
\* measurement completed after it; every sample in the ring is one of the
\* last three valid measurements.
C29_StaleWithinThreeSamples ==
    \A s \in 0..2 :
        distance_buffer[s] > 0 =>
            /\ slot_seq[s] > 0
            /\ Len(valid_log) - slot_seq[s] < 3
            /\ distance_buffer[s] = valid_log[slot_seq[s]]

\* The fourth valid measurement has overwritten the first, in the third
\* trigger period after the one that stored it.
C29_Witness ==
    /\ Len(valid_log) = 4 /\ slot_seq[0] = 4 /\ slot_age[0] = 0
    /\ slot_age[1] = 2 /\ slot_age[2] = 1

\* C30: a get_filtered_distance call during which no capture handler runs
\* returns 0 exactly when no valid measurement has completed since start-up.
C30_ZeroMeansNoSample ==
    [][pc # "decide" /\ pc' = "decide" /\ calm' =>
          (distance' = 0) = (valid_log' = << >>)]_vars

\* One pair has completed with an invalid pulse: the call returns 0.
C30_Witness ==
    /\ pc = "decide" /\ calm /\ distance = 0
    /\ measurement_ready = 1 /\ answered = 1 /\ valid_log = << >>

\* C31: in the tank-height variant, an iteration that read distance_cm as 0
\* with water_adc <= 100 selects EMPTY, alert 0 and every indicator off.
C31_NoDistanceIsEmpty ==
    (tpc = "report" /\ distance = 0 /\ water_adc <= WATER_CONTAMINATION_ADC) =>
        /\ status = STATUS_EMPTY /\ alert = 0
        /\ PE4 = 1 /\ PE5 = 1 /\ PG5 = 1 /\ PE3 = 1

\* C32: every value assigned to container_height_cm is the value of the digit
\* string of a complete line received before the assignment, whatever the
\* interleaving of the receive handler with the main loop.
C32_HeightIsALine ==
    [][height_writes' # height_writes => container_height_cm' \in lines_seen]_vars

\* C33: in every record the JSON telemetry variant has sent, the status field
\* is CONTAMINATED exactly when the water field is greater than 100.
C33_RecordIsSnapshot ==
    \A n \in 1..Len(uart_tx) :
        (uart_tx[n].status = "CONTAMINATED") = (DigitsValue(uart_tx[n].water) > 100)

\* C35: for every pair of captured counts, the distance the Timer1 handler
\* publishes is the distance the Timer5 handler publishes for the same pair.
C35_SameDistanceAsTimer5 ==
    measurement_ready = 1 =>
        distance_cm = LET pulse_us == PulseUs(PulseTicks(pulse_start, ICR1))
                      IN IF ValidPulse(pulse_us) THEN NewDistance(pulse_us) ELSE 0

\* C34: in the Timer1 variant an echo pulse with a width inside the accepted
\* window is measured to completion: when the echo line falls, the handler has
\* processed the rising edge of this pulse and the falling edge is captured;
\* the handler run that processes it publishes a nonzero distance_cm.
C34_EchoMeasured ==
    [][/\ (echo = 1 /\ echo' = 0 => edge_count = 1 /\ ICF1' = 1)
       /\ (ICF1 = 1 /\ ICF1' = 0 /\ edge_count = 1 =>
              measurement_ready' = 1 /\ distance_cm' > 0)]_vars

\* C36: whenever trigger_hcsr04 is not executing (the capture handler runs in
\* one step), edge_count is 0 or 1 and the capture unit is set to the rising
\* edge exactly when edge_count is 0, to the falling edge exactly when it is 1.
C36_EdgeSelectMatchesCount ==
    pc \notin {"t1", "t2", "t3", "t4", "t5", "t6", "t7"} =>
        /\ edge_count \in {0, 1}
        /\ (ICES5 = 1) = (edge_count = 0)

\* C37: whenever all three ring entries are 0, distance_cm is 0; and a
\* get_filtered_distance call that takes the fallback branch with no handler
\* run during the call returns 0.
C37_EmptyRingMeansZero ==
    [][/\ (distance_buffer' = ZeroBuffer => distance_cm' = 0)
       /\ (pc = "d_hi" /\ pc' = "decide" /\ calm' => distance' = 0)]_vars

\* The sensor has answered twice with pulses too short to be valid: the ring
\* is empty and the fallback has returned 0.
C37_Witness ==
    /\ pc = "decide" /\ calm /\ distance = 0
    /\ distance_buffer = ZeroBuffer /\ distance_cm = 0
    /\ answered = 2 /\ iteration > 61

\* C38: distance_cm, every ring entry and the value a get_filtered_distance
\* call returns when no handler run interrupts it are each 0 or in 2..405.
C38_DistanceRange ==
    LET InRange(v) == v = 0 \/ v \in 2..405
    IN /\ InRange(distance_cm)
       /\ \A k \in 0..(DISTANCE_SAMPLES - 1) : InRange(distance_buffer[k])
       /\ InRange(FilterOf(distance_buffer, distance_cm))

\* The longest valid pulse (23500 us) gave 405 cm, stored next to two samples
\* of 17 cm: the filter returns 146.
C38_Witness ==
    /\ measurement_ready = 1 /\ PulseUs(pulse_ticks) = MaxPulseUs
    /\ distance_cm = 405
    /\ \E k \in 0..(DISTANCE_SAMPLES - 1) : distance_buffer[k] = 405
    /\ FilterOf(distance_buffer, distance_cm) = 146

\* C39: at the end of a main-loop iteration, that is once the decision chain
\* of src/main.cpp or the status chain of the tank-height variant has run, at
\* most one of the red, yellow and green LEDs is lit (pins PE4, PE5, PG5 are
\* active-low).
C39_AtMostOneLed ==
    (pc = "delay" \/ tpc = "report") =>
        Cardinality({p \in {"red", "yellow", "green"} :
                        CASE p = "red" -> PE4 = 0
                          [] p = "yellow" -> PE5 = 0
                          [] OTHER -> PG5 = 0}) <= 1

\* The tank-height chain has selected half-full: yellow alone is lit.
C39_Witness ==
    /\ tpc = "report" /\ status = STATUS_HALF_FULL
    /\ PE4 = 1 /\ PE5 = 0 /\ PG5 = 1

\* C40: for every sequence of received bytes, rx_index stays in 0..7 and the
\* receive handler is the only writer of rx_buffer, writing the element at
\* rx_index, inside rx_buffer[0..7]; a handler run on a newline or carriage
\* return with at least one digit buffered sets new_command and leaves
\* rx_index at 0 and a NUL-terminated string of one or more digits in
\* rx_buffer, and no other step sets new_command.
C40_ReceiveDiscipline ==
    [][LET last == RxBufferSize - 1
           isr == rx_wire # << >> /\ rx_wire' = Tail(rx_wire)
           line_end == isr /\ Head(rx_wire) \in {"LF", "CR"} /\ rx_index > 0
       IN /\ rx_index' \in 0..last
          /\ DOMAIN rx_buffer' = 0..last
          /\ \A k \in 0..last :
                rx_buffer'[k] # rx_buffer[k] => isr /\ k = rx_index
          /\ IF line_end
             THEN /\ new_command' = 1
                  /\ rx_index' = 0
                  /\ \E n \in 1..last :
                        /\ \A k \in 0..(n - 1) : rx_buffer'[k] \in DigitChars
                        /\ rx_buffer'[n] = "NUL"
             ELSE new_command' = 1 => new_command = 1]_vars

\* The line of nine digits has been received: the eighth digit found the
\* buffer full and restarted it, the ninth went to rx_buffer[0] and the
\* newline closed the command "9" in front of the digits left from before.
C40_Witness ==
    /\ new_command = 1 /\ rx_index = 0
    /\ rx_buffer[0] = "9" /\ rx_buffer[1] = "NUL" /\ rx_buffer[2] = "3"
    /\ rx_buffer[6] = "7" /\ rx_buffer[7] = "NUL"

====
